---------------------------- MODULE Spec2Model ----------------------------
(***************************************************************************)
(* Model of the taxi-dispatch geocoding API (src/index.js): the gazetteer, *)
(* the hybrid geocoder with its two providers, the quality grading, the    *)
(* LRU/TTL result cache and the request handlers with the geography gate.  *)
(*                                                                         *)
(* Conventions.  Text is a TLA+ string and is processed character by       *)
(* character.  A coordinate is an integer number of micro-degrees          *)
(* (21.492075 is 21492075).  OpenCage's confidence is the integer 0..10 it *)
(* reports; Mapbox's relevance (0..1) is held in tenths (0.9 is 9).        *)
(***************************************************************************)
EXTENDS Integers, Sequences, FiniteSets, TLC

VARIABLES
  geoCache,   \* the LRUCache: entries [key, value, start], least recently used first
  now,        \* the clock, in ticks
  pc,         \* per request slot: where the handler is suspended
  req,        \* per request slot: the request being served (endpoint and body)
  loc,        \* per request slot: the handler's local variables across awaits
  res,        \* per request slot: the responses sent for the current request
  trace,      \* per request slot: what the current request did (its number, the
              \* HTTP requests issued and their answers, the cache HIT/MISS lines
              \* logged, the entries set, what the geocoding functions returned)
  served,     \* number of requests received so far
  hist,       \* history: per cache key, the last value set and when
  pure        \* the input and result of the pure function under check

vars == <<geoCache, now, pc, req, loc, res, trace, served, hist, pure>>

----------------------------------------------------------------------------
(* Strings: String.prototype methods and the regular expressions used.     *)

\* Strings here are ASCII.  The accented letters of the source's texts are
\* written as one character each, so that lengths and matches are kept:
\*   a-acute "$"   e-acute "^"   i-acute "|"   o-acute "%"   u-acute "#"
\*   n-tilde "~"
\* so "m^xico" is the country's name as the source spells it, and differs
\* from "mexico".  No text used here has an upper-case accented letter.
UpperChars == "ABCDEFGHIJKLMNOPQRSTUVWXYZ"
LowerChars == "abcdefghijklmnopqrstuvwxyz"
Digits == {"0", "1", "2", "3", "4", "5", "6", "7", "8", "9"}

CharAt(s, i) == SubSeq(s, i, i)

\* the lower-case letter of each upper-case letter
LowerOf == [c \in {CharAt(UpperChars, i) : i \in 1..Len(UpperChars)} |->
              CharAt(LowerChars, CHOOSE i \in 1..Len(UpperChars) : CharAt(UpperChars, i) = c)]

LowerChar(c) == IF c \in DOMAIN LowerOf THEN LowerOf[c] ELSE c

RECURSIVE LowerFrom(_, _)
LowerFrom(s, i) ==
  IF i > Len(s) THEN "" ELSE LowerChar(CharAt(s, i)) \o LowerFrom(s, i + 1)

ToLowerCase(s) == LowerFrom(s, 1)

RECURSIVE TrimStart(_)
TrimStart(s) ==
  IF s # "" /\ CharAt(s, 1) = " " THEN TrimStart(SubSeq(s, 2, Len(s))) ELSE s

RECURSIVE TrimEnd(_)
TrimEnd(s) ==
  IF s # "" /\ CharAt(s, Len(s)) = " " THEN TrimEnd(SubSeq(s, 1, Len(s) - 1)) ELSE s

Trim(s) == TrimEnd(TrimStart(s))

\* s.includes(k)
Includes(s, k) ==
  \E i \in 1..(Len(s) - Len(k) + 1) : SubSeq(s, i, i + Len(k) - 1) = k

\* /\d/.test(s)
HasDigit(s) == \E i \in 1..Len(s) : CharAt(s, i) \in Digits

\* s.replace(/\s+/g, '-')
RECURSIVE ReplaceSpaces(_)
ReplaceSpaces(s) ==
  IF s = "" THEN ""
  ELSE IF CharAt(s, 1) = " "
       THEN "-" \o ReplaceSpaces(TrimStart(s))
       ELSE CharAt(s, 1) \o ReplaceSpaces(SubSeq(s, 2, Len(s)))

\* a test that matches nothing
MatchesNothing(s) == FALSE

\* /^\d{5},\s*(nayarit,\s*)?m^xico$/.test(s)
IsPostalCodeOnly(s) ==
  /\ Len(s) >= 6
  /\ \A i \in 1..5 : CharAt(s, i) \in Digits
  /\ CharAt(s, 6) = ","
  /\ LET rest == TrimStart(SubSeq(s, 7, Len(s)))
     IN  \/ rest = "m^xico"
         \/ /\ Len(rest) >= 8
            /\ SubSeq(rest, 1, 8) = "nayarit,"
            /\ TrimStart(SubSeq(rest, 9, Len(rest))) = "m^xico"

----------------------------------------------------------------------------
(* Configuration (environment) and tables.                                 *)

\* BOUNDS_NAYARIT = "latS,lonW,latN,lonE", in millionths of a degree (the
\* value README.md gives: 21.0,-105.5,22.5,-104.0)
bounds == <<21000000, -105500000, 22500000, -104000000>>

\* ALLOWED_MUNICIPIOS, trimmed and lower-cased (the value README.md gives)
allowed == {"tepic", "xalisco", "san blas", "compostela"}

ALLOWED_SPECIFIC_POINTS ==
  << [name |-> "Playa Las Islitas, San Blas", lat |-> 21543330, lon |-> -105285580, radiusM |-> 1000],
     [name |-> "Centro de Compostela (Plaza Principal)", lat |-> 21168500, lon |-> -104916800, radiusM |-> 200] >>

\* address components: the fields a municipality is read from.  defined = FALSE
\* is a result without components; "" is a field that is absent.
Components(city, town, county, village) ==
  [defined |-> TRUE, city |-> city, town |-> town, county |-> county, village |-> village]

NoComponents ==
  [defined |-> FALSE, city |-> "", town |-> "", county |-> "", village |-> ""]

Poi(key, lat, lon, address) ==
  [key |-> key, lat |-> lat, lon |-> lon, address |-> address,
   components |-> Components("Tepic", "", "", "")]

\* the table in definition order, which is the order for..in visits its keys
POIS_ADICIONALES ==
  << Poi("forum tepic", 21492075, -104865812, "Forum Tepic, Blvrd Luis Donaldo Colosio 680, Subcentro Urbano, 63175 Tepic, Nay."),
     Poi("forum", 21492075, -104865812, "Forum Tepic, Blvrd Luis Donaldo Colosio 680, Subcentro Urbano, 63175 Tepic, Nay."),
     Poi("catedral", 21499700, -104894800, "Catedral de Tepic, M^xico Nte. 132, Centro, Tepic"),
     Poi("catedral de tepic", 21499700, -104894800, "Catedral de Tepic, M^xico Nte. 132, Centro, Tepic"),
     Poi("walmart", 21515000, -104870000, "Walmart, Av. Insurgentes 1072, Lagos del Country, Tepic"),
     Poi("walmart tepic", 21515000, -104870000, "Walmart, Av. Insurgentes 1072, Lagos del Country, Tepic"),
     Poi("walmart insurgentes", 21515000, -104870000, "Walmart, Av. Insurgentes 1072, Lagos del Country, Tepic"),
     Poi("central de autobuses", 21488000, -104890000, "Central de Autobuses de Tepic, Av. Insurgentes 1072, Tepic"),
     Poi("central autobuses", 21488000, -104890000, "Central de Autobuses de Tepic, Av. Insurgentes 1072, Tepic"),
     Poi("centro", 21501700, -104894000, "Centro Hist%rico, Tepic, Nayarit"),
     Poi("el centro", 21501700, -104894000, "Centro Hist%rico, Tepic, Nayarit"),
     Poi("centro tepic", 21501700, -104894000, "Centro Hist%rico, Tepic, Nayarit"),
     Poi("hospital general", 21500000, -104890000, "Hospital General de Nayarit, Av Enfermer|a S/n, Tepic"),
     Poi("hospital", 21500000, -104890000, "Hospital General de Nayarit, Av Enfermer|a S/n, Tepic"),
     Poi("cruz roja", 21505000, -104895000, "Cruz Roja Mexicana, Tepic, Nayarit"),
     Poi("bodega aurrera", 21510000, -104890000, "Bodega Aurrera, Tepic, Nayarit"),
     Poi("aurrera", 21510000, -104890000, "Bodega Aurrera, Tepic, Nayarit"),
     Poi("uan campus", 21515000, -104865000, "Universidad Aut%noma de Nayarit, Ciudad de la Cultura, Tepic"),
     Poi("universidad", 21515000, -104865000, "Universidad Aut%noma de Nayarit, Ciudad de la Cultura, Tepic"),
     Poi("uan", 21515000, -104865000, "Universidad Aut%noma de Nayarit, Ciudad de la Cultura, Tepic"),
     Poi("tec de tepic", 21480000, -104840000, "Instituto Tecnol%gico de Tepic, Av. Tecnol%gico 2595, Tepic"),
     Poi("tecnologico", 21480000, -104840000, "Instituto Tecnol%gico de Tepic, Av. Tecnol%gico 2595, Tepic"),
     Poi("tec tepic", 21480000, -104840000, "Instituto Tecnol%gico de Tepic, Av. Tecnol%gico 2595, Tepic"),
     Poi("aeropuerto", 21419400, -104843100, "Aeropuerto de Tepic, Carretera Tepic-Guadalajara, Tepic"),
     Poi("aeropuerto tepic", 21419400, -104843100, "Aeropuerto de Tepic, Carretera Tepic-Guadalajara, Tepic"),
     Poi("soriana", 21495000, -104870000, "Soriana, Tepic, Nayarit"),
     Poi("chedraui", 21484400, -104876100, "Chedraui, Avenida Insurgentes, Las Aves, Tepic") >>

----------------------------------------------------------------------------
(* mapQualityToPrecision                                                   *)

Grade(calidad, precision_metros) ==
  [calidad |-> calidad, precision_metros |-> precision_metros]

\* the tier the source and its score alone give (the if/else chain); the
\* Mapbox thresholds 0.9, 0.7, 0.4 are 9, 7, 4 tenths
BucketGrade(source, qualityScore) ==
  IF source = "predefined_poi" THEN Grade("Excelente", 5)
  ELSE IF source = "opencage" \/ source = "opencage_reverse"
       THEN IF qualityScore >= 9 THEN Grade("Excelente", 10)
            ELSE IF qualityScore >= 7 THEN Grade("Buena", 30)
            ELSE IF qualityScore >= 4 THEN Grade("Aceptable", 150)
            ELSE Grade("Baja", 600)
  ELSE IF source = "mapbox"
       THEN IF qualityScore >= 9 THEN Grade("Excelente", 10)
            ELSE IF qualityScore >= 7 THEN Grade("Buena", 30)
            ELSE IF qualityScore >= 4 THEN Grade("Aceptable", 150)
            ELSE Grade("Baja", 600)
  ELSE Grade("Desconocida", 999)

IsGenericResult(normalizedFound) ==
  /\ Includes(normalizedFound, "m^xico")
  /\ ~Includes(normalizedFound, "tepic")
  /\ ~Includes(normalizedFound, "xalisco")
  /\ ~Includes(normalizedFound, "san blas")
  /\ ~Includes(normalizedFound, "compostela")
  /\ ~HasDigit(normalizedFound)

\* the tier below
OneTierDown(grade) ==
  IF grade.calidad = "Excelente" THEN Grade("Buena", 30) ELSE Grade("Aceptable", 150)

\* the grading with the missing-number rule lowering the tier by one step
GradeOneStep(source, qualityScore, direccionEncontrada, originalAddress) ==
  LET bucket == BucketGrade(source, qualityScore)
      normalizedFound == ToLowerCase(direccionEncontrada)
      normalizedOriginal == ToLowerCase(originalAddress)
  IN  IF IsGenericResult(normalizedFound) \/ IsPostalCodeOnly(Trim(normalizedFound))
      THEN Grade("Baja", 600)
      ELSE IF /\ bucket.calidad \in {"Buena", "Excelente"}
              /\ ~HasDigit(normalizedFound)
              /\ HasDigit(normalizedOriginal)
           THEN OneTierDown(bucket)
           ELSE bucket

\* the grading with the missing-number rule applied whatever the tier
GradeUnguarded(source, qualityScore, direccionEncontrada, originalAddress) ==
  LET bucket == BucketGrade(source, qualityScore)
      normalizedFound == ToLowerCase(direccionEncontrada)
      normalizedOriginal == ToLowerCase(originalAddress)
  IN  IF IsGenericResult(normalizedFound) \/ IsPostalCodeOnly(Trim(normalizedFound))
      THEN Grade("Baja", 600)
      ELSE IF ~HasDigit(normalizedFound) /\ HasDigit(normalizedOriginal)
           THEN Grade("Aceptable", 150)
           ELSE bucket

mapQualityToPrecision(source, qualityScore, direccionEncontrada, originalAddress) ==
  LET bucket == BucketGrade(source, qualityScore)
      normalizedFound == ToLowerCase(direccionEncontrada)
      normalizedOriginal == ToLowerCase(originalAddress)
  IN  IF IsGenericResult(normalizedFound) \/ IsPostalCodeOnly(Trim(normalizedFound))
      THEN Grade("Baja", 600)
      ELSE IF /\ bucket.calidad \in {"Buena", "Excelente"}
              /\ ~HasDigit(normalizedFound)
              /\ HasDigit(normalizedOriginal)
           THEN Grade("Aceptable", 150)
           ELSE bucket

----------------------------------------------------------------------------
(* Geometry: the bounding box and the allowed specific points.             *)

Abs(x) == IF x < 0 THEN -x ELSE x

\* the providers' candidate filter of geocodeHybrid
InBox(lat, lon) ==
  /\ lat >= bounds[1] /\ lat <= bounds[3]
  /\ lon >= bounds[2] /\ lon <= bounds[4]

\* the handlers' test: lat < latS || lat > latN || lon < lonW || lon > lonE
OutOfBounds(lat, lon) ==
  \/ lat < bounds[1] \/ lat > bounds[3]
  \/ lon < bounds[2] \/ lon > bounds[4]

\* getDistance(...) <= point.radiusKm * 1000, with geolib's distance taken on
\* the local plane: a micro-degree of latitude is 1/9 m, of longitude 1/10 m
\* at this latitude
WithinRadius(lat, lon, point) ==
  LET dLatM == Abs(lat - point.lat) \div 9
      dLonM == Abs(lon - point.lon) \div 10
  IN  /\ dLatM <= point.radiusM
      /\ dLonM <= point.radiusM
      /\ dLatM * dLatM + dLonM * dLonM <= point.radiusM * point.radiusM

isSpecificAllowedPoint(lat, lon) ==
  \E i \in DOMAIN ALLOWED_SPECIFIC_POINTS :
    WithinRadius(lat, lon, ALLOWED_SPECIFIC_POINTS[i])

\* (c.city || c.town || c.county || c.village || '').toLowerCase()
Municipality(c) ==
  ToLowerCase(IF c.city # "" THEN c.city
              ELSE IF c.town # "" THEN c.town
              ELSE IF c.county # "" THEN c.county
              ELSE c.village)

\* a field of a request body: a string, a number, or absent
JStr(s) == [type |-> "string", v |-> s]
JNum(n) == [type |-> "number", v |-> n]
JUndef == [type |-> "undefined"]

\* !x is false
Truthy(j) ==
  \/ j.type = "string" /\ j.v # ""
  \/ j.type = "number" /\ j.v # 0

\* validators.coordinates
ValidCoordinates(lat, lon) ==
  /\ lat.type = "number" /\ lon.type = "number"
  /\ lat.v >= -90000000 /\ lat.v <= 90000000
  /\ lon.v >= -180000000 /\ lon.v <= 180000000

\* validators.address
ValidAddress(address) == address.type = "string" /\ Len(Trim(address.v)) > 3

\* validators.phone
ValidPhone(telefono) == telefono.type = "string" /\ Len(Trim(telefono.v)) >= 10

----------------------------------------------------------------------------
(* Values shared by the handlers.                                          *)

Null == [null |-> TRUE]

\* what an awaited call gives back: a value, or a thrown error
Return(v) == [ok |-> TRUE, value |-> v]
Throw(message, code, status) ==
  [ok |-> FALSE, message |-> message, code |-> code, status |-> status]

\* what a provider's HTTP request ends with: a payload, or an axios error
\* (err.message, err.code, err.response.status; 0 is no response)
Payload(items) == [ok |-> TRUE, items |-> items]
AxiosError(message, code, status) ==
  [ok |-> FALSE, message |-> message, code |-> code, status |-> status]

\* an OpenCage result (geometry.lat, geometry.lng, formatted, confidence,
\* components) or a Mapbox feature (center, place_name, relevance in tenths,
\* the components its context reduces to)
Candidate(lat, lon, name, score, components) ==
  [lat |-> lat, lon |-> lon, name |-> name, score |-> score, components |-> components]

----------------------------------------------------------------------------
(* The LRUCache (lru-cache with max and ttl, every other option default):  *)
(* has() is false for a stale entry and touches nothing; get() of a fresh  *)
(* entry makes it the most recently used, get() of a stale one deletes it; *)
(* set() of a new key into a full cache evicts the least recently used.    *)
(* The cache reads its clock once for the calls made in one piece of       *)
(* synchronous code (ttlResolution: 1): has() and the get() that follows   *)
(* it without an await judge an entry's age at the same instant.           *)

\* ttl: 24 hours, in ticks of the model's clock
TTL == 1

\* max: 500 entries, scaled down
CacheMax == 2

\* an entry that never expires
NeverStale(entry, t) == FALSE

IsStale(entry, t) == t - entry.start > TTL

CacheIndex(c, key) ==
  IF \E i \in DOMAIN c : c[i].key = key
  THEN CHOOSE i \in DOMAIN c : c[i].key = key
  ELSE 0

Without(c, i) == SubSeq(c, 1, i - 1) \o SubSeq(c, i + 1, Len(c))

\* a has() that does not look at the entry's age
CacheHasAnyAge(c, key, t) == CacheIndex(c, key) # 0

CacheHas(c, key, t) ==
  LET i == CacheIndex(c, key) IN i # 0 /\ ~IsStale(c[i], t)

\* get(): the value (Null for undefined) and the cache it leaves
CacheGet(c, key, t) ==
  LET i == CacheIndex(c, key)
  IN  IF i = 0 THEN [cache |-> c, value |-> Null]
      ELSE IF IsStale(c[i], t) THEN [cache |-> Without(c, i), value |-> Null]
      ELSE [cache |-> Append(Without(c, i), c[i]), value |-> c[i].value]

\* a set() that keeps the entry the key already has
CacheSetKeepingFirst(c, key, value, t) ==
  LET i == CacheIndex(c, key)
      entry == [key |-> key, value |-> value, start |-> t]
  IN  IF i # 0 THEN c
      ELSE IF Len(c) >= CacheMax THEN Append(Tail(c), entry)
      ELSE Append(c, entry)

CacheSet(c, key, value, t) ==
  LET i == CacheIndex(c, key)
      entry == [key |-> key, value |-> value, start |-> t]
  IN  IF i # 0 THEN Append(Without(c, i), entry)
      ELSE IF Len(c) >= CacheMax THEN Append(Tail(c), entry)
      ELSE Append(c, entry)

----------------------------------------------------------------------------
(* Cache keys.                                                             *)

DigitChar(d) == CharAt("0123456789", d + 1)

RECURSIVE IntToStr(_)
IntToStr(n) == IF n < 10 THEN DigitChar(n) ELSE IntToStr(n \div 10) \o DigitChar(n % 10)

RECURSIVE PadLeft(_, _)
PadLeft(s, width) == IF Len(s) >= width THEN s ELSE PadLeft("0" \o s, width)

\* Number.prototype.toFixed(5) of a coordinate held in micro-degrees
ToFixed5(micro) ==
  LET q == (Abs(micro) + 5) \div 10
  IN  (IF micro < 0 THEN "-" ELSE "") \o IntToStr(q \div 100000)
        \o "." \o PadLeft(IntToStr(q % 100000), 5)

\* the key with the address as it was given
RawKey(address) == "geocode:" \o address

\* `geocode:${address.trim().toLowerCase().replace(/\s+/g, '-')}`
GeocodeKey(address) == "geocode:" \o ReplaceSpaces(ToLowerCase(Trim(address)))

\* `reverse:${lat.toFixed(5)},${lon.toFixed(5)}`
ReverseKey(lat, lon) == "reverse:" \o ToFixed5(lat) \o "," \o ToFixed5(lon)

----------------------------------------------------------------------------
(* geocodeHybrid: the gazetteer, provider A (OpenCage), provider B         *)
(* (Mapbox) and the choice between their candidates.                       *)

\* normalizedAddressInput.includes(key) || key.includes(normalizedAddressInput)
PoiMatches(normalizedAddressInput, key) ==
  Includes(normalizedAddressInput, key) \/ Includes(key, normalizedAddressInput)

\* a lookup in which the last matching key of the table wins
LastPoi(address) ==
  LET normalizedAddressInput == Trim(ToLowerCase(address))
      hits == {i \in DOMAIN POIS_ADICIONALES :
                 PoiMatches(normalizedAddressInput, POIS_ADICIONALES[i].key)}
  IN  IF hits = {} THEN 0 ELSE CHOOSE i \in hits : \A j \in hits : i >= j

\* the index of the first key, in table order, that matches; 0 when none does
FirstPoi(address) ==
  LET normalizedAddressInput == Trim(ToLowerCase(address))
      hits == {i \in DOMAIN POIS_ADICIONALES :
                 PoiMatches(normalizedAddressInput, POIS_ADICIONALES[i].key)}
  IN  IF hits = {} THEN 0 ELSE CHOOSE i \in hits : \A j \in hits : i <= j

GeoResult(lat, lon, direccion, source, quality, components, sugerencias) ==
  [lat |-> lat, lon |-> lon, direccion |-> direccion, source |-> source,
   quality |-> quality, components |-> components, sugerencias |-> sugerencias]

PoiResult(poi) ==
  GeoResult(poi.lat, poi.lon, poi.address, "predefined_poi", 10, poi.components, <<>>)

\* results.find(r => in the box): the index of the first one, 0 when none
FirstInBox(items) ==
  LET inside == {i \in DOMAIN items : InBox(items[i].lat, items[i].lon)}
  IN  IF inside = {} THEN 0 ELSE CHOOSE i \in inside : \A j \in inside : i <= j

\* suggestions taken from all the results, the chosen one included
SugerenciasUnfiltered(items, best) ==
  [i \in 1..(IF Len(items) < 2 THEN Len(items) ELSE 2) |-> items[i].name]

\* results.filter(r => r !== best).map(r => r.formatted).slice(0, 2)
Sugerencias(items, best) ==
  LET others == Without(items, best)
  IN  [i \in 1..(IF Len(others) < 2 THEN Len(others) ELSE 2) |-> others[i].name]

\* the candidate a provider's answer gives, Null when it gives none: the
\* request failed (the catch block only logs) or no result is in the box
ProviderResult(resp, source) ==
  IF ~resp.ok THEN Null
  ELSE LET best == FirstInBox(resp.items)
       IN  IF best = 0 THEN Null
           ELSE GeoResult(resp.items[best].lat, resp.items[best].lon,
                          resp.items[best].name, source, resp.items[best].score,
                          resp.items[best].components, Sugerencias(resp.items, best))

\* a threshold of 9
VeryHighConfidence(openCageResult) == openCageResult.quality >= 9

\* openCageResult.quality >= 8
HighConfidence(openCageResult) == openCageResult.quality >= 8

\* mapboxResult.quality >= openCageResult.quality * 0.8, the Mapbox quality
\* being held in tenths: q/10 >= 0.8 * oc  iff  q >= 8 * oc
MapboxPreferred(mapboxResult, openCageResult) ==
  mapboxResult.quality >= 8 * openCageResult.quality

\* an end of geocodeHybrid that needs both candidates
ArbitrateBoth(openCageResult, mapboxResult, address) ==
  IF openCageResult # Null /\ mapboxResult # Null
  THEN IF MapboxPreferred(mapboxResult, openCageResult)
       THEN Return(mapboxResult) ELSE Return(openCageResult)
  ELSE Throw("No se pudo geocodificar la direcci%n: " \o address, "", 0)

\* the end of geocodeHybrid
Arbitrate(openCageResult, mapboxResult, address) ==
  IF openCageResult # Null /\ mapboxResult # Null
  THEN IF MapboxPreferred(mapboxResult, openCageResult)
       THEN Return(mapboxResult) ELSE Return(openCageResult)
  ELSE IF openCageResult # Null THEN Return(openCageResult)
  ELSE IF mapboxResult # Null THEN Return(mapboxResult)
  ELSE Throw("No se pudo geocodificar la direcci%n: " \o address, "", 0)

----------------------------------------------------------------------------
(* The handlers.  A handler runs from one await to the next without        *)
(* interruption; each piece below is the code between two awaits, given    *)
(* the request r, the cache c and the time t, and yields a step: the cache *)
(* it leaves, where the handler is suspended next (with its locals), the   *)
(* responses it sent and what it did.                                      *)

Ev(op, arg) == [op |-> op, arg |-> arg]

Step(c, newpc, newloc, responses, events) ==
  [cache |-> c, pc |-> newpc, loc |-> newloc, out |-> responses, ev |-> events]

\* the HIT or MISS line of a lookup, with what the cache held under the key
\* (Null when it held nothing)
Lookup(op, c, key) ==
  Ev(op, [key |-> key,
          held |-> IF \E i \in DOMAIN c : c[i].key = key
                   THEN (CHOOSE e \in {c[i] : i \in DOMAIN c} : e.key = key).value
                   ELSE Null])

\* the answer a provider's request ended with
Response(from, resp) == Ev("response", [from |-> from, resp |-> resp])

\* what a call of the named function ended with
Returned(function, outcome) == Ev("returned", [function |-> function, outcome |-> outcome])

\* the events of the code that ran before the step o, in the same piece
Before(events, o) == [o EXCEPT !.ev = events \o @]

\* res.status(status).json({code, ...}); a success carries no code
Respond(c, status, code, body) ==
  Step(c, "done", Null, <<[status |-> status, code |-> code, body |-> body]>>, <<>>)

\* an exception no try block catches: the async handler's promise rejects
Unhandled(c) == Step(c, "rejected", Null, <<>>, <<>>)

\* what becomes of a step: a rejected handler sends no response (Express 4
\* ignores the promise) or the global error middleware answers 500 (Express 5
\* passes the rejection on); the repository does not pin the version
Settle(o) ==
  IF o.pc = "rejected"
  THEN {o, [o EXCEPT !.pc = "done",
                     !.out = <<[status |-> 500, code |-> "INTERNAL_SERVER_ERROR",
                                body |-> Null]>>]}
  ELSE {o}

\* what the caller of a geocoding function goes on with: every caller
\* reads a property of the value inside its try block first (result.lat,
\* reverseData.components), a TypeError when the value is undefined
Awaited(outcome) ==
  IF outcome.ok /\ outcome.value = Null
  THEN Throw("Cannot read properties of undefined", "", 0)
  ELSE outcome

RECURSIVE AfterReverse(_, _, _, _, _)

\* reverseGeocodeWithCache(k.lat, k.lon) up to its await; k holds what the
\* caller keeps across the call
ReverseStart(r, c, t, k) ==
  LET key == ReverseKey(k.lat, k.lon)
  IN  IF CacheHas(c, key, t)
      THEN LET got == CacheGet(c, key, t)
           IN  Before(<<Lookup("cacheHit", c, key), Returned("reverseGeocodeWithCache", Return(got.value))>>,
                      AfterReverse(r, got.cache, t, k, Return(got.value)))
      ELSE Step(c, "awaitReverse", k, <<>>,
                <<Lookup("cacheMiss", c, key), Ev("axios.get", "opencage_reverse")>>)

\* --- POST /geocode_text ---

TextBody(r, result, detectedMunicipality) ==
  LET grade == mapQualityToPrecision(result.source, result.quality,
                                     result.direccion, r.direccion.v)
  IN  [lat |-> result.lat, lon |-> result.lon,
       direccion_encontrada |-> result.direccion,
       precision_estimada_metros |-> grade.precision_metros,
       calidad_evaluada |-> grade.calidad,
       sugerencias |-> result.sugerencias,
       fuente_geocodificacion |-> result.source,
       componentes_direccion |-> result.components,
       \* not sent: the handler's detectedMunicipality when it decided
       detectedMunicipality |-> detectedMunicipality]

\* a handler that accepts whatever the municipality
TextDecideOpen(r, c, result, detectedMunicipality) ==
  Respond(c, 200, "", TextBody(r, result, detectedMunicipality))

\* from the allowed specific points to the response
TextDecide(r, c, result, detectedMunicipality) ==
  IF /\ ~isSpecificAllowedPoint(result.lat, result.lon)
     /\ detectedMunicipality # ""
     /\ detectedMunicipality \notin allowed
  THEN Respond(c, 400, "OUT_OF_SERVICE_AREA", Null)
  ELSE Respond(c, 200, "", TextBody(r, result, detectedMunicipality))

\* from the bounds test to the reverse geocoding of the coordinate
TextGate(r, c, t, result) ==
  IF OutOfBounds(result.lat, result.lon)
  THEN Respond(c, 400, "OUT_OF_BOUNDS", Null)
  ELSE LET detectedMunicipality ==
             IF result.components.defined THEN Municipality(result.components) ELSE ""
       IN  IF detectedMunicipality = "" \/ detectedMunicipality \notin allowed
           THEN ReverseStart(r, c, t,
                  [stage |-> "textGate", lat |-> result.lat, lon |-> result.lon,
                   result |-> result, detectedMunicipality |-> detectedMunicipality])
           ELSE TextDecide(r, c, result, detectedMunicipality)

\* the inner try/catch around the reverse geocoding
TextAfterReverse(r, c, k, outcome) ==
  TextDecide(r, c, k.result,
    IF outcome.ok /\ outcome.value.components.defined
    THEN Municipality(outcome.value.components)
    ELSE k.detectedMunicipality)

\* the handler's catch block
TextCatch(c, err) ==
  IF \/ Includes(err.message, "No se pudo geocodificar")
     \/ Includes(err.message, "ninguna API")
  THEN Respond(c, 404, "ADDRESS_NOT_FOUND_GEOCODE_TEXT", Null)
  ELSE Respond(c, 500, "INTERNAL_GEOCODING_TEXT_ERROR", Null)

TextAfterGeocode(r, c, t, outcome) ==
  IF outcome.ok THEN TextGate(r, c, t, outcome.value) ELSE TextCatch(c, outcome)

\* --- POST /geocode_link ---

LinkCatch(c, err) ==
  IF \/ Includes(err.message, "ninguna API")
     \/ Includes(err.message, "No se pudo geocodificar")
  THEN Respond(c, 503, "GEOCODING_UNAVAILABLE_OR_NOT_FOUND", Null)
  ELSE Respond(c, 500, "INTERNAL_LINK_PROCESSING_ERROR", Null)

\* resultData of either branch
LinkData(r, lat, lon, found, original) ==
  LET grade == mapQualityToPrecision(found.source, found.quality, found.direccion, original)
  IN  [lat |-> lat, lon |-> lon,
       direccion_encontrada |-> found.direccion,
       calidad_evaluada |-> grade.calidad,
       precision_estimada_metros |-> grade.precision_metros,
       fuente_geocodificacion |-> found.source,
       componentes_direccion |-> found.components,
       tipo_ubicacion |-> IF r.info.isOrigin THEN "origen_de_ruta"
                          ELSE IF r.info.isDestination THEN "destino_de_ruta" ELSE ""]

\* from the municipality to the response
LinkDecide(c, resultData, componentsForMunicipality) ==
  LET detectedMunicipality ==
        IF componentsForMunicipality.defined
        THEN Municipality(componentsForMunicipality) ELSE ""
  IN  IF /\ detectedMunicipality # ""
         /\ detectedMunicipality \notin allowed
         /\ ~isSpecificAllowedPoint(resultData.lat, resultData.lon)
      THEN Respond(c, 400, "OUT_OF_SERVICE_AREA", Null)
      ELSE Respond(c, 200, "",
             \* detectedMunicipality is not sent: what the handler decided on
             resultData @@ [detectedMunicipality |-> detectedMunicipality])

\* from the bounds test to the reverse geocoding for the municipality
LinkGate(r, c, t, resultData) ==
  IF OutOfBounds(resultData.lat, resultData.lon)
  THEN Respond(c, 400, "OUT_OF_BOUNDS", Null)
  ELSE IF /\ ~resultData.componentes_direccion.defined
          /\ resultData.fuente_geocodificacion # "predefined_poi"
       THEN ReverseStart(r, c, t,
              [stage |-> "linkGate", lat |-> resultData.lat, lon |-> resultData.lon,
               resultData |-> resultData])
       ELSE LinkDecide(c, resultData, resultData.componentes_direccion)

LinkAfterGeocode(r, c, t, outcome) ==
  IF outcome.ok
  THEN LinkGate(r, c, t, LinkData(r, outcome.value.lat, outcome.value.lon,
                                  outcome.value, r.info.q))
  ELSE LinkCatch(c, outcome)

\* --- POST /reverse_origin ---

ReverseOriginAfterReverse(r, c, outcome) ==
  IF outcome.ok
  THEN LET grade == mapQualityToPrecision(outcome.value.source, outcome.value.quality,
                      outcome.value.direccion,
                      ToFixed5(r.lat.v) \o "," \o ToFixed5(r.lon.v))
       IN  Respond(c, 200, "",
             [direccion_origen |-> outcome.value.direccion,
              source |-> outcome.value.source,
              quality_score |-> outcome.value.quality,
              calidad_evaluada |-> grade.calidad,
              precision_estimada_metros |-> grade.precision_metros,
              componentes_direccion |-> outcome.value.components])
  ELSE IF Includes(outcome.message, "No se encontr% direcci%n")
       THEN Respond(c, 404, "ADDRESS_NOT_FOUND_REVERSE", Null)
  ELSE IF outcome.code = "ECONNABORTED" \/ outcome.code = "ETIMEDOUT"
       THEN Respond(c, 408, "REVERSE_GEOCODING_TIMEOUT", Null)
  ELSE IF outcome.status = 429
       THEN Respond(c, 429, "RATE_LIMIT_EXCEEDED_EXTERNAL", Null)
  ELSE IF outcome.status = 401 \/ outcome.status = 403
       THEN Respond(c, 503, "EXTERNAL_SERVICE_AUTH_ERROR", Null)
  ELSE Respond(c, 500, "INTERNAL_REVERSE_GEOCODING_ERROR", Null)

\* the code that follows `await reverseGeocodeWithCache(...)`, by caller
AfterReverse(r, c, t, k, returned) ==
  LET outcome == Awaited(returned) IN
  CASE k.stage = "textGate" -> TextAfterReverse(r, c, k, outcome)
    [] k.stage = "linkCoords" ->
         IF outcome.ok
         THEN LinkGate(r, c, t, LinkData(r, k.lat, k.lon, outcome.value,
                                         "Link con coordenadas"))
         ELSE LinkCatch(c, outcome)
    [] k.stage = "linkGate" ->
         IF outcome.ok
         THEN LinkDecide(c, k.resultData, outcome.value.components)
         ELSE LinkCatch(c, outcome)
    [] k.stage = "reverseOrigin" -> ReverseOriginAfterReverse(r, c, outcome)

\* reverseGeocodeWithCache from the provider's answer on
ReverseFinish(r, c, t, k, resp) ==
  LET notFound == Throw("No se encontr% direcci%n para las coordenadas (OpenCage).", "", 0)
      failed == Throw(resp.message, resp.code, resp.status)
  IN  IF ~resp.ok
      THEN Before(<<Response("opencage_reverse", resp),
                    Returned("reverseGeocodeWithCache", failed)>>,
                  AfterReverse(r, c, t, k, failed))
      ELSE IF resp.items = <<>>
      THEN Before(<<Response("opencage_reverse", resp),
                    Returned("reverseGeocodeWithCache", notFound)>>,
                  AfterReverse(r, c, t, k, notFound))
      ELSE LET best == resp.items[1]
               result == [direccion |-> best.name, source |-> "opencage_reverse",
                          quality |-> best.score, components |-> best.components]
               key == ReverseKey(k.lat, k.lon)
           IN  Before(<<Response("opencage_reverse", resp),
                        Ev("cacheSet", [key |-> key, value |-> result]),
                        Returned("reverseGeocodeWithCache", Return(result))>>,
                      AfterReverse(r, CacheSet(c, key, result, t), t, k, Return(result)))

\* --- POST /validate_address ---

ValidateAfterGeocode(r, c, outcome) ==
  IF outcome.ok
  THEN LET result == outcome.value
           grade == mapQualityToPrecision(result.source, result.quality,
                                          result.direccion, r.direccion.v)
       IN  Respond(c, 200, "",
             [lat |-> result.lat, lon |-> result.lon,
              direccion_encontrada |-> result.direccion,
              calidad_evaluada |-> grade.calidad,
              precision_estimada_metros |-> grade.precision_metros,
              es_poi_conocido |-> (result.source = "predefined_poi"),
              sugerencias_geocoder |-> result.sugerencias,
              fuente_geocodificacion |-> result.source,
              componentes_direccion |-> result.components])
  ELSE IF \/ Includes(outcome.message, "No se pudo geocodificar")
          \/ Includes(outcome.message, "ninguna API")
       THEN Respond(c, 404, "ADDRESS_VALIDATION_NOT_FOUND", Null)
  ELSE Respond(c, 500, "INTERNAL_ADDRESS_VALIDATION_ERROR", Null)

\* --- POST /calculate_fare ---

\* the quote, from the destination on
FareQuote(r, c, lat2Final, lon2Final, direccionDestino) ==
  Respond(c, 200, "",
    [lat_origen |-> r.lat1.v, lon_origen |-> r.lon1.v,
     lat_destino |-> lat2Final, lon_destino |-> lon2Final,
     direccion_destino |-> direccionDestino])

FareAfterGeocode(r, c, outcome) ==
  IF outcome.ok
  THEN IF OutOfBounds(outcome.value.lat, outcome.value.lon)
       THEN Respond(c, 400, "DESTINATION_OUT_OF_BOUNDS", Null)
       ELSE FareQuote(r, c, outcome.value.lat, outcome.value.lon, outcome.value.direccion)
  ELSE IF Includes(outcome.message, "No se pudo geocodificar")
       THEN Respond(c, 404, "DESTINATION_ADDRESS_NOT_FOUND", Null)
  ELSE Respond(c, 500, "DESTINATION_PROCESSING_ERROR", Null)

\* --- geocodeHybrid and geocodeWithCache, by caller ---

\* the code that follows `await geocodeWithCache(...)` or, for
\* /validate_address, `await geocodeHybrid(...)`
AfterGeocode(r, c, t, returned) ==
  LET outcome == Awaited(returned) IN
  CASE r.endpoint = "/geocode_text" -> TextAfterGeocode(r, c, t, outcome)
    [] r.endpoint = "/geocode_link" -> LinkAfterGeocode(r, c, t, outcome)
    [] r.endpoint = "/validate_address" -> ValidateAfterGeocode(r, c, outcome)
    [] r.endpoint = "/calculate_fare" -> FareAfterGeocode(r, c, outcome)

\* a geocodeWithCache that stores what geocodeHybrid threw as well
HybridReturnStoring(r, c, t, address, cached, outcome) ==
  IF cached
  THEN Before(<<Returned("geocodeHybrid", outcome), Returned("geocodeWithCache", outcome)>>,
              AfterGeocode(r, CacheSet(c, GeocodeKey(address), outcome, t), t, outcome))
  ELSE Before(<<Returned("geocodeHybrid", outcome)>>, AfterGeocode(r, c, t, outcome))

\* geocodeHybrid returns or throws; under geocodeWithCache a returned
\* result is stored first (a throw passes through geocodeWithCache)
HybridReturn(r, c, t, address, cached, outcome) ==
  IF cached /\ outcome.ok
  THEN LET key == GeocodeKey(address)
       IN  Before(<<Returned("geocodeHybrid", outcome),
                    Ev("cacheSet", [key |-> key, value |-> outcome.value]),
                    Returned("geocodeWithCache", outcome)>>,
                  AfterGeocode(r, CacheSet(c, key, outcome.value, t), t, outcome))
  ELSE IF cached
  THEN Before(<<Returned("geocodeHybrid", outcome), Returned("geocodeWithCache", outcome)>>,
              AfterGeocode(r, c, t, outcome))
  ELSE Before(<<Returned("geocodeHybrid", outcome)>>, AfterGeocode(r, c, t, outcome))

\* a geocodeHybrid that asks provider A whatever the gazetteer holds
HybridStartAsking(r, c, t, address, cached) ==
  Step(c, "awaitA", [address |-> address, cached |-> cached], <<>>,
       <<Ev("axios.get", "opencage")>>)

\* geocodeHybrid up to its first await: the gazetteer, then the request to
\* provider A
HybridStart(r, c, t, address, cached) ==
  LET hit == FirstPoi(address)
  IN  IF hit # 0
      THEN HybridReturn(r, c, t, address, cached, Return(PoiResult(POIS_ADICIONALES[hit])))
      ELSE Step(c, "awaitA", [address |-> address, cached |-> cached], <<>>,
                <<Ev("axios.get", "opencage")>>)

\* a geocodeHybrid that asks provider A a second time when its request failed
HybridAfterARetrying(r, c, t, l, resp) ==
  LET openCageResult == ProviderResult(resp, "opencage")
  IN  IF ~resp.ok /\ "retried" \notin DOMAIN l
      THEN Step(c, "awaitA", l @@ [retried |-> TRUE], <<>>,
                <<Response("opencage", resp), Ev("axios.get", "opencage")>>)
      ELSE IF openCageResult # Null /\ HighConfidence(openCageResult)
      THEN Before(<<Response("opencage", resp)>>,
                  HybridReturn(r, c, t, l.address, l.cached, Return(openCageResult)))
      ELSE Step(c, "awaitB",
                [address |-> l.address, cached |-> l.cached,
                 openCageResult |-> openCageResult], <<>>,
                <<Response("opencage", resp), Ev("axios.get", "mapbox")>>)

\* geocodeHybrid from provider A's answer to the request to provider B
HybridAfterA(r, c, t, l, resp) ==
  LET openCageResult == ProviderResult(resp, "opencage")
  IN  IF openCageResult # Null /\ HighConfidence(openCageResult)
      THEN Before(<<Response("opencage", resp)>>,
                  HybridReturn(r, c, t, l.address, l.cached, Return(openCageResult)))
      ELSE Step(c, "awaitB",
                [address |-> l.address, cached |-> l.cached,
                 openCageResult |-> openCageResult], <<>>,
                <<Response("opencage", resp), Ev("axios.get", "mapbox")>>)

\* geocodeHybrid from provider B's answer to its end
HybridAfterB(r, c, t, l, resp) ==
  Before(<<Response("mapbox", resp)>>,
         HybridReturn(r, c, t, l.address, l.cached,
           Arbitrate(l.openCageResult, ProviderResult(resp, "mapbox"), l.address)))

\* geocodeWithCache up to its await
GeocodeWithCacheStart(r, c, t, address) ==
  LET key == GeocodeKey(address)
  IN  IF CacheHas(c, key, t)
      THEN LET got == CacheGet(c, key, t)
           IN  Before(<<Lookup("cacheHit", c, key),
                        Returned("geocodeWithCache", Return(got.value))>>,
                      AfterGeocode(r, got.cache, t, Return(got.value)))
      ELSE Before(<<Lookup("cacheMiss", c, key)>>, HybridStart(r, c, t, address, TRUE))

\* --- the handlers up to their first await ---

TextStart(r, c, t) ==
  IF ~Truthy(r.direccion) \/ ~ValidAddress(r.direccion)
  THEN Respond(c, 400, "INVALID_ADDRESS_INPUT", Null)
  ELSE GeocodeWithCacheStart(r, c, t, r.direccion.v)

ValidateStart(r, c, t) ==
  IF ~Truthy(r.direccion) \/ ~ValidAddress(r.direccion)
  THEN Respond(c, 400, "INVALID_ADDRESS_INPUT", Null)
  ELSE HybridStart(r, c, t, r.direccion.v, FALSE)

ReverseOriginStart(r, c, t) ==
  IF r.lat = JUndef \/ r.lon = JUndef \/ ~ValidCoordinates(r.lat, r.lon)
  THEN Respond(c, 400, "INVALID_COORDINATES", Null)
  ELSE ReverseStart(r, c, t, [stage |-> "reverseOrigin", lat |-> r.lat.v, lon |-> r.lon.v])

\* the handler taking whatever has no coordinate for a text
LinkStartAsText(r, c, t) ==
  IF ~r.validUrl THEN Respond(c, 400, "INVALID_URL_FORMAT", Null)
  ELSE IF r.info.hasCoords
       THEN IF r.info.nan \/ ~ValidCoordinates(JNum(r.info.lat), JNum(r.info.lon))
            THEN Respond(c, 400, "INVALID_COORDINATES_FROM_LINK", Null)
            ELSE ReverseStart(r, c, t,
                   [stage |-> "linkCoords", lat |-> r.info.lat, lon |-> r.info.lon])
  ELSE IF ~ValidAddress(JStr(r.info.q))
       THEN Respond(c, 400, "INVALID_ADDRESS_FROM_LINK", Null)
       ELSE GeocodeWithCacheStart(r, c, t, r.info.q)

\* from the parsed link (info) on; info.hasCoords is info.lat != null &&
\* info.lon != null, info.q is "" when the parser gave no text
LinkStart(r, c, t) ==
  IF ~r.validUrl THEN Respond(c, 400, "INVALID_URL_FORMAT", Null)
  ELSE IF r.info.hasCoords
       THEN \* every comparison with NaN is false
            IF r.info.nan \/ ~ValidCoordinates(JNum(r.info.lat), JNum(r.info.lon))
            THEN Respond(c, 400, "INVALID_COORDINATES_FROM_LINK", Null)
            ELSE ReverseStart(r, c, t,
                   [stage |-> "linkCoords", lat |-> r.info.lat, lon |-> r.info.lon])
  ELSE IF r.info.q # ""
       THEN IF ~ValidAddress(JStr(r.info.q))
            THEN Respond(c, 400, "INVALID_ADDRESS_FROM_LINK", Null)
            ELSE GeocodeWithCacheStart(r, c, t, r.info.q)
  ELSE Respond(c, 400, "UNPARSABLE_LINK_CONTENT", Null)

FareStart(r, c, t) ==
  IF r.lat1 = JUndef \/ r.lon1 = JUndef \/ ~ValidCoordinates(r.lat1, r.lon1)
  THEN Respond(c, 400, "INVALID_ORIGIN_COORDINATES", Null)
  ELSE IF ~Truthy(r.telefono) \/ ~ValidPhone(r.telefono)
  THEN Respond(c, 400, "INVALID_PHONE_NUMBER", Null)
  ELSE IF r.lat2 # JUndef /\ r.lon2 # JUndef /\ ValidCoordinates(r.lat2, r.lon2)
  THEN \* destino && destino.trim() && ...: trim of a number throws
       IF Truthy(r.destino) /\ r.destino.type # "string" THEN Unhandled(c)
       ELSE IF OutOfBounds(r.lat2.v, r.lon2.v)
       THEN Respond(c, 400, "DESTINATION_OUT_OF_BOUNDS", Null)
       ELSE FareQuote(r, c, r.lat2.v, r.lon2.v,
              IF Truthy(r.destino) /\ Trim(r.destino.v) # "" /\ r.destino.v # "undefined"
              THEN r.destino.v ELSE "Ubicaci%n seleccionada")
  ELSE IF ~Truthy(r.destino) \/ ~ValidAddress(r.destino) \/ r.destino.v = "undefined"
  THEN Respond(c, 400, "INVALID_DESTINATION_ADDRESS_TEXT", Null)
  ELSE GeocodeWithCacheStart(r, c, t, r.destino.v)

Handle(r, c, t) ==
  CASE r.endpoint = "/geocode_text" -> TextStart(r, c, t)
    [] r.endpoint = "/geocode_link" -> LinkStart(r, c, t)
    [] r.endpoint = "/reverse_origin" -> ReverseOriginStart(r, c, t)
    [] r.endpoint = "/validate_address" -> ValidateStart(r, c, t)
    [] r.endpoint = "/calculate_fare" -> FareStart(r, c, t)

----------------------------------------------------------------------------
(* The server: request slots served concurrently, one piece of handler     *)
(* code at a time (Node's event loop), the providers answering in between. *)

Slots == {1, 2}

\* requests received in a run
MaxServed == 3

\* clock ticks in a run
MaxTime == 2

RECURSIVE HistAfter(_, _, _)
HistAfter(h, events, t) ==
  IF events = <<>> THEN h
  ELSE LET e == Head(events)
       IN  HistAfter(IF e.op = "cacheSet"
                     THEN {x \in h : x.key # e.arg.key}
                            \cup {[key |-> e.arg.key, value |-> e.arg.value, time |-> t]}
                     ELSE h,
                     Tail(events), t)

InitServer ==
  /\ geoCache = <<>>
  /\ now = 0
  /\ pc = [p \in Slots |-> "idle"]
  /\ req = [p \in Slots |-> Null]
  /\ loc = [p \in Slots |-> Null]
  /\ res = [p \in Slots |-> <<>>]
  /\ trace = [p \in Slots |-> <<>>]
  /\ served = 0
  /\ hist = {}
  /\ pure = Null

\* the handler of slot p takes the step `step`
Apply(p, step) ==
  \E o \in Settle(step) :
    /\ geoCache' = o.cache
    /\ pc' = [pc EXCEPT ![p] = o.pc]
    /\ loc' = [loc EXCEPT ![p] = o.loc]
    /\ res' = [res EXCEPT ![p] = @ \o o.out]
    /\ trace' = [trace EXCEPT ![p] = @ \o o.ev]
    /\ hist' = HistAfter(hist, o.ev, now)

\* a request arrives and its handler runs to its first await; it takes the
\* first slot that is free
Receive(p, r) ==
  /\ pc[p] \in {"idle", "done", "rejected"}
  /\ \A q \in Slots : q < p => pc[q] \notin {"idle", "done", "rejected"}
  /\ served < MaxServed
  /\ served' = served + 1
  /\ req' = [req EXCEPT ![p] = r]
  /\ \E o \in Settle(Handle(r, geoCache, now)) :
       /\ geoCache' = o.cache
       /\ pc' = [pc EXCEPT ![p] = o.pc]
       /\ loc' = [loc EXCEPT ![p] = o.loc]
       /\ res' = [res EXCEPT ![p] = o.out]
       /\ trace' = [trace EXCEPT ![p] = <<Ev("request", served + 1)>> \o o.ev]
       /\ hist' = HistAfter(hist, o.ev, now)
  /\ UNCHANGED <<now, pure>>

\* provider A's request ends (an answer, an HTTP error, a timeout)
OpenCageResponds(p, resp) ==
  /\ pc[p] = "awaitA"
  /\ Apply(p, HybridAfterA(req[p], geoCache, now, loc[p], resp))
  /\ UNCHANGED <<now, req, served, pure>>

\* provider B's request ends
MapboxResponds(p, resp) ==
  /\ pc[p] = "awaitB"
  /\ Apply(p, HybridAfterB(req[p], geoCache, now, loc[p], resp))
  /\ UNCHANGED <<now, req, served, pure>>

\* the reverse geocoding request ends
ReverseResponds(p, resp) ==
  /\ pc[p] = "awaitReverse"
  /\ Apply(p, ReverseFinish(req[p], geoCache, now, loc[p], resp))
  /\ UNCHANGED <<now, req, served, pure>>

Tick ==
  /\ now < MaxTime
  /\ now' = now + 1
  /\ UNCHANGED <<geoCache, pc, req, loc, res, trace, served, hist, pure>>

----------------------------------------------------------------------------
(* Inputs: request bodies and provider answers.                            *)

Tepic == Components("Tepic", "", "", "")
SanBlas == Components("", "San Blas", "", "")
SantaMaria == Components("", "", "Santa Mar|a del Oro", "")
Santiago == Components("", "", "Santiago Ixcuintla", "")
NoMunicipality == Components("", "", "", "")

\* a point of Tepic; a point within the radius of Playa Las Islitas; the
\* centre of Compostela; Guadalajara, which is outside the box
PTepic == <<21500000, -104890000>>
PIslitas == <<21543000, -105285000>>
PCompostela == <<21168500, -104916800>>
PGuadalajara == <<20659700, -103349600>>

At(point, name, score, components) ==
  Candidate(point[1], point[2], name, score, components)

Timeout == AxiosError("timeout of 6000ms exceeded", "ECONNABORTED", 0)
RateLimited == AxiosError("Request failed with status code 429", "ERR_BAD_REQUEST", 429)
Unauthorized == AxiosError("Request failed with status code 401", "ERR_BAD_REQUEST", 401)
NoDns == AxiosError("getaddrinfo ENOTFOUND api.opencagedata.com", "ENOTFOUND", 0)
ServerError == AxiosError("Request failed with status code 500", "ERR_BAD_RESPONSE", 500)

TextRequest(direccion) == [endpoint |-> "/geocode_text", direccion |-> direccion]
ValidateRequest(direccion) == [endpoint |-> "/validate_address", direccion |-> direccion]
ReverseOriginRequest(lat, lon) == [endpoint |-> "/reverse_origin", lat |-> lat, lon |-> lon]
FareRequest(lat1, lon1, lat2, lon2, destino, telefono) ==
  [endpoint |-> "/calculate_fare", lat1 |-> lat1, lon1 |-> lon1,
   lat2 |-> lat2, lon2 |-> lon2, destino |-> destino, telefono |-> telefono]

\* what parseGoogleMapsLinkImproved gives for the link's final URL: hasCoords
\* is lat != null && lon != null, nan says that lat or lon is NaN, q and
\* destination are "" when absent
CoordsInfo(point, isOrigin, isDestination) ==
  [hasCoords |-> TRUE, lat |-> point[1], lon |-> point[2], nan |-> FALSE, q |-> "",
   isOrigin |-> isOrigin, isDestination |-> isDestination, destination |-> ""]
TextInfo(q, isOrigin, isDestination) ==
  [hasCoords |-> FALSE, lat |-> 0, lon |-> 0, nan |-> FALSE, q |-> q,
   isOrigin |-> isOrigin, isDestination |-> isDestination, destination |-> ""]
EmptyInfo == TextInfo("", FALSE, FALSE)
LinkRequest(validUrl, info) ==
  [endpoint |-> "/geocode_link", validUrl |-> validUrl, info |-> info]

----------------------------------------------------------------------------
(* geocodeHybrid on its own: one client of POST /validate_address, which   *)
(* calls geocodeHybrid without the cache, over every gazetteer key and     *)
(* every kind of answer of the two providers.                              *)

\* inputs that name gazetteer keys: the key, the key with a house number,
\* the key inside a sentence, several keys at once, a fragment of a key
GazetteerInputs ==
  {POIS_ADICIONALES[i].key : i \in DOMAIN POIS_ADICIONALES}
    \cup {POIS_ADICIONALES[i].key \o " 123" : i \in DOMAIN POIS_ADICIONALES}
    \cup {"  Voy al " \o POIS_ADICIONALES[i].key \o " por favor " : i \in DOMAIN POIS_ADICIONALES}
    \cup {"hospital general centro", "Chedraui Centro", "UAN Tec de Tepic",
          "SORIANA FORUM", "tepic", "aurr", "Catedral de Tepic 132"}

StreetInputs == {"Calle Roble 347", "Avenida M^xico"}

HybridRequests ==
  {ValidateRequest(JStr(a)) : a \in GazetteerInputs \cup StreetInputs}
    \cup {ValidateRequest(JUndef), ValidateRequest(JStr(" ab ")), ValidateRequest(JNum(63000))}

Scores == 0..10

\* provider A: one result at every confidence, with and without a municipality
\* of the allow-list; results outside the box before one inside; two inside;
\* none inside; none at all; every kind of failure
OpenCageAnswers ==
  {Payload(<<At(PTepic, "Calle Roble 347, 63000 Tepic, Nay., M^xico", n, Tepic)>>) : n \in Scores}
    \cup {Payload(<<At(PGuadalajara, "Calle Roble, Guadalajara, M^xico", 10, NoMunicipality),
                    At(PIslitas, "Playa Las Islitas, Nayarit, M^xico", n, SanBlas),
                    At(PTepic, "Tepic, Nayarit, M^xico", 9, Tepic)>>) : n \in {5, 9}}
    \cup {Payload(<<At(PGuadalajara, "Guadalajara, Jalisco, M^xico", 10, NoMunicipality)>>),
          Payload(<<>>)}
    \cup {Payload(<<At(PTepic, "Calle Roble 347, 63000 Tepic, Nay., M^xico", 9, Tepic),
                    At(PIslitas, "Playa Las Islitas, Nayarit, M^xico", 8, SanBlas),
                    At(PCompostela, "Calle Roble, Compostela, Nay., M^xico", 7, NoMunicipality),
                    At(PGuadalajara, "Calle Roble, Guadalajara, M^xico", 6, NoMunicipality)>>)}
    \cup {Timeout, RateLimited, Unauthorized, NoDns, ServerError}

\* provider B: the same, its relevance in tenths
MapboxAnswers ==
  {Payload(<<At(PTepic, "Calle Roble 347, Tepic, Nayarit 63000, M^xico", n, Tepic)>>) : n \in Scores}
    \cup {Payload(<<At(PGuadalajara, "Guadalajara, Jalisco, M^xico", 10, NoMunicipality),
                    At(PIslitas, "Las Islitas, San Blas, Nayarit, M^xico", 7, NoMunicipality),
                    At(PTepic, "Tepic, Nayarit, M^xico", 10, Tepic)>>),
          Payload(<<At(PGuadalajara, "Guadalajara, Jalisco, M^xico", 10, NoMunicipality)>>),
          Payload(<<At(PGuadalajara, "Calle Roble, Guadalajara, Jalisco, M^xico", 10, NoMunicipality),
                    At(PTepic, "Calle Roble 347, Tepic, Nayarit 63000, M^xico", 9, Tepic),
                    At(PIslitas, "Las Islitas, San Blas, Nayarit, M^xico", 7, NoMunicipality),
                    At(PCompostela, "Calle Roble, Compostela, Nayarit, M^xico", 6, NoMunicipality)>>),
          Payload(<<>>)}
    \cup {Timeout, RateLimited, Unauthorized, NoDns, ServerError}

ReverseAnswers ==
  {Payload(<<At(PTepic, "Calle Roble 347, 63000 Tepic, Nay., M^xico", 9, Tepic)>>),
   Payload(<<At(PIslitas, "San Blas, Nayarit, M^xico", 7, SanBlas)>>),
   Payload(<<At(PTepic, "Nayarit, M^xico", 3, NoMunicipality)>>),
   Payload(<<At(PTepic, "M^xico", 1, NoComponents)>>),
   Payload(<<>>), Timeout, RateLimited, Unauthorized}

\* the client sends one request
NextHybrid ==
  \/ \E r \in HybridRequests : pc[1] = "idle" /\ Receive(1, r)
  \/ \E resp \in OpenCageAnswers : OpenCageResponds(1, resp)
  \/ \E resp \in MapboxAnswers : MapboxResponds(1, resp)

SpecHybrid == InitServer /\ [][NextHybrid]_vars

----------------------------------------------------------------------------
(* What a request did, read from its trace.                                *)

\* how many HTTP requests slot p's request sent to the provider
Calls(p, provider) ==
  Cardinality({i \in DOMAIN trace[p] :
                 trace[p][i].op = "axios.get" /\ trace[p][i].arg = provider})

\* the answers slot p's request got from the provider
Responses(p, from) ==
  {trace[p][i].arg.resp :
     i \in {j \in DOMAIN trace[p] :
              trace[p][j].op = "response" /\ trace[p][j].arg.from = from}}

\* what the calls of the function made by slot p's request returned or threw
Outcomes(p, function) ==
  {trace[p][i].arg.outcome :
     i \in {j \in DOMAIN trace[p] :
              trace[p][j].op = "returned" /\ trace[p][j].arg.function = function}}

\* slot p's request is one that calls geocodeHybrid directly, on this input
HybridInput(p) == Trim(ToLowerCase(req[p].direccion.v))

CallsHybrid(p) ==
  /\ req[p] # Null
  /\ req[p].endpoint = "/validate_address"
  /\ Truthy(req[p].direccion) /\ ValidAddress(req[p].direccion)

GazetteerMatches(input) ==
  \E i \in DOMAIN POIS_ADICIONALES : PoiMatches(input, POIS_ADICIONALES[i].key)

\* a provider's answer holds a candidate: a result inside the box
HasCandidate(resp) ==
  resp.ok /\ \E i \in DOMAIN resp.items : InBox(resp.items[i].lat, resp.items[i].lon)

\* the candidate of an answer that holds one: its first result inside the box
Best(resp) == resp.items[FirstInBox(resp.items)]

\* the value is the candidate of the provider's answer
IsCandidateOf(value, resp, source) ==
  /\ value.source = source
  /\ value.lat = Best(resp).lat /\ value.lon = Best(resp).lon
  /\ value.direccion = Best(resp).name
  /\ value.quality = Best(resp).score

----------------------------------------------------------------------------
(* The gazetteer (claims C3, C4, C5).                                      *)

\* C3 as stated: for every key k of the gazetteer and every input whose
\* lower-cased, trimmed form contains k, geocodeHybrid returns exactly the
\* coordinate stored for k.
C3_ContainedKeyCoordinate ==
  \A p \in Slots : \A i \in DOMAIN POIS_ADICIONALES :
    (CallsHybrid(p) /\ Includes(HybridInput(p), POIS_ADICIONALES[i].key))
      => \A o \in Outcomes(p, "geocodeHybrid") :
           /\ o.ok
           /\ o.value.lat = POIS_ADICIONALES[i].lat
           /\ o.value.lon = POIS_ADICIONALES[i].lon

\* C3 amended: for every key k that the lower-cased, trimmed input contains
\* or is contained in, no key earlier in table order being so, geocodeHybrid
\* returns exactly the coordinate stored for k.
C3_FirstMatchingKeyCoordinate ==
  \A p \in Slots : \A i \in DOMAIN POIS_ADICIONALES :
    (/\ CallsHybrid(p)
     /\ PoiMatches(HybridInput(p), POIS_ADICIONALES[i].key)
     /\ \A j \in 1..(i - 1) : ~PoiMatches(HybridInput(p), POIS_ADICIONALES[j].key))
      => /\ pc[p] = "done"
         /\ \E o \in Outcomes(p, "geocodeHybrid") : o.ok
         /\ \A o \in Outcomes(p, "geocodeHybrid") :
              /\ o.ok
              /\ o.value.lat = POIS_ADICIONALES[i].lat
              /\ o.value.lon = POIS_ADICIONALES[i].lon

\* C3 witness: an input containing the keys "hospital general" and "centro",
\* answered with the coordinate of "centro", the earlier key
C3_Witness ==
  \E p \in Slots :
    /\ CallsHybrid(p) /\ HybridInput(p) = "hospital general centro"
    /\ \E o \in Outcomes(p, "geocodeHybrid") :
         o.ok /\ o.value.lat = 21501700 /\ o.value.lon = -104894000

\* C4 as stated: every gazetteer hit grades Excelente with precision 5 m,
\* whatever the original input.
C4_GazetteerHitExcellent ==
  \A p \in Slots :
    (/\ CallsHybrid(p) /\ pc[p] = "done"
     /\ res[p][1].status = 200
     /\ res[p][1].body.fuente_geocodificacion = "predefined_poi")
      => /\ res[p][1].body.calidad_evaluada = "Excelente"
         /\ res[p][1].body.precision_estimada_metros = 5

\* C4 witness: a gazetteer hit for an input with a house number whose
\* gazetteer address has none, graded Aceptable, 150 m
C4_Witness ==
  \E p \in Slots :
    /\ CallsHybrid(p) /\ pc[p] = "done" /\ HybridInput(p) = "soriana 123"
    /\ res[p][1].status = 200
    /\ res[p][1].body.fuente_geocodificacion = "predefined_poi"
    /\ res[p][1].body.calidad_evaluada = "Aceptable"
    /\ res[p][1].body.precision_estimada_metros = 150

\* C5: when the gazetteer matches the input, geocodeHybrid returns at once
\* (the call is never left waiting) with source predefined_poi, quality 10
\* and no suggestions, and sends no request to provider A or B.
C5_GazetteerShortCircuit ==
  \A p \in Slots :
    (CallsHybrid(p) /\ GazetteerMatches(HybridInput(p)))
      => /\ pc[p] = "done"
         /\ Calls(p, "opencage") = 0 /\ Calls(p, "mapbox") = 0
         /\ Responses(p, "opencage") = {} /\ Responses(p, "mapbox") = {}
         /\ Cardinality(Outcomes(p, "geocodeHybrid")) = 1
         /\ \A o \in Outcomes(p, "geocodeHybrid") :
              /\ o.ok
              /\ o.value.source = "predefined_poi"
              /\ o.value.quality = 10
              /\ o.value.sugerencias = <<>>

\* C5 witness: a gazetteer hit answered without any provider request
C5_Witness ==
  \E p \in Slots :
    /\ CallsHybrid(p) /\ HybridInput(p) = "voy al walmart por favor"
    /\ pc[p] = "done" /\ Len(res[p]) = 1 /\ res[p][1].status = 200
    /\ res[p][1].body.es_poi_conocido
    /\ Calls(p, "opencage") = 0 /\ Calls(p, "mapbox") = 0

----------------------------------------------------------------------------
(* The two providers (claims C6, C7, C8).                                  *)

\* C6: once provider A has answered, if its candidate (its first result
\* inside the box) has confidence >= 8 the call has returned that candidate
\* and provider B was never asked; if the confidence is lower, or A held no
\* candidate or failed, provider B has been asked exactly once.
C6_HighConfidenceShortCircuit ==
  \A p \in Slots : \A a \in Responses(p, "opencage") :
    CallsHybrid(p) =>
      IF HasCandidate(a) /\ Best(a).score >= 8
      THEN /\ pc[p] = "done"
           /\ Calls(p, "mapbox") = 0
           /\ Cardinality(Outcomes(p, "geocodeHybrid")) = 1
           /\ \A o \in Outcomes(p, "geocodeHybrid") :
                o.ok /\ IsCandidateOf(o.value, a, "opencage")
      ELSE Calls(p, "mapbox") = 1

\* C6 witness: provider A's candidate has confidence exactly 8, it is
\* returned, and provider B was not asked
C6_Witness ==
  \E p \in Slots : \E a \in Responses(p, "opencage") :
    /\ CallsHybrid(p) /\ pc[p] = "done"
    /\ HasCandidate(a) /\ Best(a).score = 8
    /\ Calls(p, "mapbox") = 0
    /\ \E o \in Outcomes(p, "geocodeHybrid") : o.ok /\ IsCandidateOf(o.value, a, "opencage")

\* C7 as stated: when both providers hold a candidate, geocodeHybrid returns
\* B's unless B's confidence, both taken on the scale 0-10 (B's relevance in
\* tenths is already on it), is below 0.8 times A's, and then it returns A's.
C7_NormalizedArbitration ==
  \A p \in Slots :
    \A a \in Responses(p, "opencage") : \A b \in Responses(p, "mapbox") :
      (CallsHybrid(p) /\ HasCandidate(a) /\ HasCandidate(b))
        => \A o \in Outcomes(p, "geocodeHybrid") :
             /\ o.ok
             /\ IF 10 * Best(b).score < 8 * Best(a).score
                THEN IsCandidateOf(o.value, a, "opencage")
                ELSE IsCandidateOf(o.value, b, "mapbox")

\* C7 witness: A's candidate has confidence 5, B's has relevance 0.9, and
\* A's is returned
C7_Witness ==
  \E p \in Slots :
    \E a \in Responses(p, "opencage") : \E b \in Responses(p, "mapbox") :
      /\ CallsHybrid(p) /\ HasCandidate(a) /\ HasCandidate(b)
      /\ Best(a).score = 5 /\ Best(b).score = 9
      /\ \E o \in Outcomes(p, "geocodeHybrid") : o.ok /\ IsCandidateOf(o.value, a, "opencage")

\* C8: geocodeHybrid throws if and only if neither the gazetteer nor
\* provider A nor provider B held a candidate, and what it throws is its
\* own error, never a provider's; once provider A has failed, provider B
\* has been asked; when exactly one provider held a candidate, that
\* candidate is returned.
C8_FailsOnlyWithoutCandidate ==
  \A p \in Slots :
    CallsHybrid(p) =>
      LET A == Responses(p, "opencage")
          B == Responses(p, "mapbox")
          candA == \E a \in A : HasCandidate(a)
          candB == \E b \in B : HasCandidate(b)
      IN  /\ \A a \in A : ~a.ok => Calls(p, "mapbox") = 1
          /\ pc[p] = "done" => Cardinality(Outcomes(p, "geocodeHybrid")) = 1
          /\ \A o \in Outcomes(p, "geocodeHybrid") :
               /\ ~o.ok <=> (~GazetteerMatches(HybridInput(p)) /\ ~candA /\ ~candB)
               /\ ~o.ok =>
                    /\ o.message = "No se pudo geocodificar la direcci%n: " \o req[p].direccion.v
                    /\ o.code = "" /\ o.status = 0
                    /\ B # {}
               /\ (candA /\ ~candB) => \E a \in A : IsCandidateOf(o.value, a, "opencage")
               /\ (candB /\ ~candA) => \E b \in B : IsCandidateOf(o.value, b, "mapbox")

\* C8 witness: provider A timed out, provider B held a candidate, and the
\* call returned it
C8_Witness ==
  \E p \in Slots :
    /\ CallsHybrid(p) /\ pc[p] = "done"
    /\ Timeout \in Responses(p, "opencage")
    /\ \E b \in Responses(p, "mapbox") :
         /\ HasCandidate(b)
         /\ \E o \in Outcomes(p, "geocodeHybrid") : o.ok /\ IsCandidateOf(o.value, b, "mapbox")

----------------------------------------------------------------------------
(* The geography gate: one client of POST /geocode_text, /geocode_link and *)
(* /calculate_fare, over locations inside and outside the box, inside and  *)
(* outside the allowed points, with every kind of municipality.            *)

Origin == PTepic
Phone == JStr("3111234567")

GateRequests ==
  {TextRequest(JStr(a)) : a \in {"Calle Roble 347", "soriana", "Aeropuerto"}}
    \cup {TextRequest(JUndef)}
    \cup {LinkRequest(TRUE, CoordsInfo(point, isOrigin, FALSE)) :
            point \in {PTepic, PIslitas, PCompostela, PGuadalajara},
            isOrigin \in BOOLEAN}
    \cup {LinkRequest(TRUE, CoordsInfo(<<200000000, -104890000>>, FALSE, FALSE)),
          LinkRequest(TRUE, TextInfo("Calle Roble 347", FALSE, TRUE)),
          LinkRequest(TRUE, TextInfo("aeropuerto tepic", FALSE, FALSE)),
          LinkRequest(TRUE, TextInfo("ab", FALSE, FALSE)),
          LinkRequest(TRUE, EmptyInfo),
          LinkRequest(FALSE, EmptyInfo)}
    \cup {FareRequest(JNum(Origin[1]), JNum(Origin[2]), JNum(point[1]), JNum(point[2]),
                      destino, Phone) :
            point \in {PTepic, PCompostela, PGuadalajara},
            destino \in {JUndef, JStr("Casa de Ana"), JStr("undefined"), JNum(12)}}
    \cup {FareRequest(JNum(Origin[1]), JNum(Origin[2]), JUndef, JUndef, destino, Phone) :
            destino \in {JStr("Calle Roble 347"), JStr("aeropuerto"), JStr("undefined"), JUndef}}
    \cup {FareRequest(JNum(Origin[1]), JNum(Origin[2]), JNum(200000000), JNum(0),
                      JStr("Calle Roble 347"), Phone),
          FareRequest(JUndef, JNum(Origin[2]), JUndef, JUndef, JStr("soriana"), Phone),
          FareRequest(JNum(Origin[1]), JNum(Origin[2]), JUndef, JUndef, JStr("soriana"),
                      JStr("311"))}

GateOpenCageAnswers ==
  {Payload(<<At(PTepic, "Calle Roble 347, 63000 Tepic, Nay., M^xico", 9, Tepic)>>),
   Payload(<<At(PTepic, "Calle Roble, Nayarit, M^xico", 9, NoMunicipality)>>),
   Payload(<<At(PTepic, "Calle Roble, M^xico", 8, NoComponents)>>),
   Payload(<<At(PTepic, "Calle Roble 347, Santa Mar|a del Oro, Nay., M^xico", 8, SantaMaria)>>),
   Payload(<<At(PIslitas, "Calle Roble 347, San Blas, Nay., M^xico", 9, SanBlas)>>),
   Payload(<<At(PIslitas, "Playa Las Islitas, Santiago Ixcuintla, Nay., M^xico", 8, Santiago)>>),
   Payload(<<At(PTepic, "Calle Roble, Tepic, Nay., M^xico", 5, Tepic)>>),
   Payload(<<>>), Timeout}

GateMapboxAnswers ==
  {Payload(<<At(PTepic, "Calle Roble 347, Tepic, Nayarit 63000, M^xico", 9, Tepic)>>),
   Payload(<<At(PIslitas, "Calle Roble, Nayarit, M^xico", 4, NoComponents)>>),
   Payload(<<At(PTepic, "Calle Roble 347, San Blas, Nayarit, M^xico", 8, SanBlas)>>),
   Payload(<<>>), RateLimited}

\* requests the client sends in a run
MaxGateRequests == 2

\* the client sends its requests one after the other
NextGate ==
  \/ \E r \in GateRequests : served < MaxGateRequests /\ Receive(1, r)
  \/ \E resp \in GateOpenCageAnswers : OpenCageResponds(1, resp)
  \/ \E resp \in GateMapboxAnswers : MapboxResponds(1, resp)
  \/ \E resp \in ReverseAnswers : ReverseResponds(1, resp)

SpecGate == InitServer /\ [][NextGate]_vars

\* the request of slot p has ended: answered, or its handler rejected
Ended(p) == pc[p] \in {"done", "rejected"}

\* the request of slot p was answered with this status and code
Answered(p, status, code) ==
  /\ pc[p] = "done" /\ Len(res[p]) = 1
  /\ res[p][1].status = status /\ res[p][1].code = code

\* the location accepted by /geocode_text or /geocode_link for slot p
Accepted(p) ==
  /\ req[p] # Null
  /\ req[p].endpoint \in {"/geocode_text", "/geocode_link"}
  /\ Answered(p, 200, "")

\* C1 as stated: every location accepted by /geocode_text or /geocode_link
\* is inside the box and its detected municipality (the one the handler
\* decided on) is in the allow-list or its coordinate is within the radius
\* of an allowed specific point.
C1_AcceptedInsideServiceArea ==
  \A p \in Slots :
    Accepted(p) =>
      LET body == res[p][1].body
      IN  /\ InBox(body.lat, body.lon)
          /\ \/ body.detectedMunicipality \in allowed
             \/ isSpecificAllowedPoint(body.lat, body.lon)

\* C1 amended: every location accepted by /geocode_text or /geocode_link is
\* inside the box, and its detected municipality is in the allow-list, or
\* could not be determined (it is empty), or its coordinate is within the
\* radius of an allowed specific point.
C1_AcceptedUnlessKnownOutside ==
  \A p \in Slots :
    Accepted(p) =>
      LET body == res[p][1].body
      IN  /\ InBox(body.lat, body.lon)
          /\ \/ body.detectedMunicipality \in allowed
             \/ body.detectedMunicipality = ""
             \/ isSpecificAllowedPoint(body.lat, body.lon)

\* C1 witness: a location accepted although no municipality was detected
\* (the reverse geocoding failed) and it is in no allowed specific point
C1_Witness ==
  \E p \in Slots :
    /\ Accepted(p)
    /\ res[p][1].body.detectedMunicipality = ""
    /\ ~isSpecificAllowedPoint(res[p][1].body.lat, res[p][1].body.lon)
    /\ \E o \in Outcomes(p, "reverseGeocodeWithCache") : ~o.ok

\* the coordinates the request of slot p resolved or took from its input
Located(p) ==
  {<<o.value.lat, o.value.lon>> :
     o \in {x \in Outcomes(p, "geocodeWithCache") : x.ok}}
    \cup (IF /\ req[p].endpoint = "/geocode_link" /\ req[p].validUrl
             /\ req[p].info.hasCoords /\ ~req[p].info.nan
             /\ ValidCoordinates(JNum(req[p].info.lat), JNum(req[p].info.lon))
          THEN {<<req[p].info.lat, req[p].info.lon>>} ELSE {})
    \cup (IF /\ req[p].endpoint = "/calculate_fare"
             /\ ValidCoordinates(req[p].lat1, req[p].lon1)
             /\ ValidPhone(req[p].telefono)
             /\ ValidCoordinates(req[p].lat2, req[p].lon2)
          THEN {<<req[p].lat2.v, req[p].lon2.v>>} ELSE {})

\* C2 as stated: a request whose resolved or link-extracted coordinate is
\* outside the box ends rejected as out of bounds (OUT_OF_BOUNDS, or
\* DESTINATION_OUT_OF_BOUNDS for /calculate_fare), whatever the municipality,
\* the reverse geocoding and the allowed specific points.
C2_OutsideBoxRejected ==
  \A p \in Slots :
    (/\ req[p] # Null /\ Ended(p)
     /\ req[p].endpoint \in {"/geocode_text", "/geocode_link", "/calculate_fare"}
     /\ \E at \in Located(p) : OutOfBounds(at[1], at[2]))
      => Answered(p, 400, IF req[p].endpoint = "/calculate_fare"
                          THEN "DESTINATION_OUT_OF_BOUNDS" ELSE "OUT_OF_BOUNDS")

\* C2 witness: a link with a valid coordinate outside the box whose reverse
\* geocoding timed out, answered 500 INTERNAL_LINK_PROCESSING_ERROR
C2_Witness ==
  \E p \in Slots :
    /\ req[p] # Null /\ req[p].endpoint = "/geocode_link"
    /\ req[p].validUrl /\ req[p].info.hasCoords
    /\ req[p].info.lat = PGuadalajara[1] /\ req[p].info.lon = PGuadalajara[2]
    /\ OutOfBounds(req[p].info.lat, req[p].info.lon)
    /\ Timeout \in Responses(p, "opencage_reverse")
    /\ Answered(p, 500, "INTERNAL_LINK_PROCESSING_ERROR")

----------------------------------------------------------------------------
(* The server with its cache: concurrent requests for the same and for     *)
(* different keys, the clock running past the TTL.                         *)

ServerRequests ==
  {TextRequest(JStr("Calle Roble 347")),
   TextRequest(JStr("  calle   ROBLE 347 ")),
   TextRequest(JStr("soriana")),
   ReverseOriginRequest(JNum(PTepic[1]), JNum(PTepic[2]))}

ServerOpenCageAnswers ==
  {Payload(<<At(PTepic, "Calle Roble 347, 63000 Tepic, Nay., M^xico", 9, Tepic)>>),
   Payload(<<At(PTepic, "Calle Roble, Nayarit, M^xico", 9, NoMunicipality)>>),
   Timeout}

ServerMapboxAnswers ==
  {Payload(<<At(PTepic, "Calle Roble 347, Tepic, Nayarit 63000, M^xico", 9, Tepic)>>),
   Payload(<<>>)}

ServerReverseAnswers ==
  {Payload(<<At(PTepic, "Calle Roble 347, 63000 Tepic, Nay., M^xico", 9, Tepic)>>),
   Timeout}

Next ==
  \/ \E p \in Slots : \E r \in ServerRequests : Receive(p, r)
  \/ \E p \in Slots : \E resp \in ServerOpenCageAnswers : OpenCageResponds(p, resp)
  \/ \E p \in Slots : \E resp \in ServerMapboxAnswers : MapboxResponds(p, resp)
  \/ \E p \in Slots : \E resp \in ServerReverseAnswers : ReverseResponds(p, resp)
  \/ Tick

Init == InitServer

Spec == Init /\ [][Next]_vars

----------------------------------------------------------------------------
(* The cache (claims C9, C10).                                             *)

\* the events slot p's request adds in the step being taken
NewEvents(p) ==
  IF trace'[p] = trace[p] THEN <<>>
  ELSE IF trace[p] # <<>> /\ Head(trace'[p]) = Head(trace[p])
       THEN SubSeq(trace'[p], Len(trace[p]) + 1, Len(trace'[p]))
       ELSE trace'[p]

\* what was last stored under the key, and when, at the moment the i-th new
\* event of slot p happens
StoredAt(p, i, key) ==
  {x \in HistAfter(hist, SubSeq(NewEvents(p), 1, i - 1), now) : x.key = key}

IsLookup(e) == e.op \in {"cacheHit", "cacheMiss"}

\* the event is a geocoding function ending with an error
IsFailure(e) ==
  /\ e.op = "returned"
  /\ e.arg.function \in {"geocodeWithCache", "reverseGeocodeWithCache"}
  /\ ~e.arg.outcome.ok

\* after the i-th new event of slot p the resolution starts anew: a provider
\* is asked, or the gazetteer answers
ResolvesAfter(p, i) ==
  /\ i < Len(NewEvents(p))
  /\ \/ NewEvents(p)[i + 1].op = "axios.get"
     \/ /\ NewEvents(p)[i + 1].op = "returned"
        /\ NewEvents(p)[i + 1].arg.function = "geocodeHybrid"
        /\ NewEvents(p)[i + 1].arg.outcome.ok
        /\ NewEvents(p)[i + 1].arg.outcome.value.source = "predefined_poi"

\* every entry of the cache is the result of a successful resolution, the
\* last one stored under its key
OnlyResultsCached ==
  \A i \in DOMAIN geoCache :
    /\ geoCache[i].value # Null
    /\ "source" \in DOMAIN geoCache[i].value
    /\ geoCache[i].value.source \in {"predefined_poi", "opencage", "mapbox", "opencage_reverse"}
    /\ \E x \in hist : x.key = geoCache[i].key /\ x.value = geoCache[i].value

\* C9: no negative caching.  The cache only ever holds results of successful
\* resolutions; a step in which geocodeWithCache or reverseGeocodeWithCache
\* fails leaves the cache as it was; and a lookup of a key under which
\* nothing was ever stored is a miss after which the providers are asked
\* again.
C9_NoNegativeCaching ==
  /\ []OnlyResultsCached
  /\ [][\A p \in Slots : \A i \in DOMAIN NewEvents(p) :
          LET e == NewEvents(p)[i]
          IN  /\ IsFailure(e) => geoCache' = geoCache
              /\ (IsLookup(e) /\ StoredAt(p, i, e.arg.key) = {})
                   => e.op = "cacheMiss" /\ ResolvesAfter(p, i)]_vars

\* C9 witness: a request whose geocodeWithCache failed has been answered,
\* and the next request for the same key missed the cache and asked
\* provider A again
C9_Witness ==
  \E p, q \in Slots :
    /\ p # q /\ pc[p] = "done" /\ pc[q] = "awaitA"
    /\ req[p] = req[q] /\ req[p].endpoint = "/geocode_text"
    /\ trace[p][1].arg < trace[q][1].arg
    /\ \E o \in Outcomes(p, "geocodeWithCache") : ~o.ok
    /\ trace[q][2].op = "cacheMiss"
    /\ trace[q][2].arg.key = GeocodeKey(req[p].direccion.v)
    /\ Calls(q, "opencage") = 1
    /\ geoCache = <<>>

\* C10 as stated: a lookup of a key within the TTL of the last successful
\* resolution stored under it is a hit that returns the stored value and is
\* followed by no provider request; a lookup after the TTL has elapsed is a
\* miss after which the resolution is performed again.
C10_StoredWithinTtlIsHit ==
  [][\A p \in Slots : \A i \in DOMAIN NewEvents(p) :
       LET e == NewEvents(p)[i]
       IN  IsLookup(e) =>
             \A x \in StoredAt(p, i, e.arg.key) :
               IF now - x.time <= TTL
               THEN /\ e.op = "cacheHit" /\ e.arg.held = x.value
                    /\ ~ResolvesAfter(p, i)
               ELSE e.op = "cacheMiss" /\ ResolvesAfter(p, i)]_vars

\* C10 amended: a lookup of a key within the TTL of the last successful
\* resolution stored under it, the entry not having been evicted by the size
\* bound, is a hit that returns the value last stored and is followed by no
\* provider request; if the entry has been evicted, or the TTL has elapsed
\* since it was stored (however recently it was read), the lookup is a miss
\* after which the resolution is performed again.
C10_StoredWithinTtlUnlessEvicted ==
  [][\A p \in Slots : \A i \in DOMAIN NewEvents(p) :
       LET e == NewEvents(p)[i]
       IN  IsLookup(e) =>
             /\ e.op = "cacheHit" => ~ResolvesAfter(p, i)
             /\ e.op = "cacheMiss" => ResolvesAfter(p, i)
             /\ e.op = "cacheHit" => StoredAt(p, i, e.arg.key) # {}
             /\ \A x \in StoredAt(p, i, e.arg.key) :
                  IF now - x.time <= TTL /\ e.arg.held # Null
                  THEN e.op = "cacheHit" /\ e.arg.held = x.value
                  ELSE e.op = "cacheMiss"]_vars

\* C10 witness: a key was stored within the TTL, its entry has been evicted
\* by the size bound, and a request looking it up missed and is asking
\* provider A again
C10_Witness ==
  \E p \in Slots :
    /\ pc[p] = "awaitA" /\ Len(trace[p]) = 3
    /\ trace[p][2].op = "cacheMiss" /\ trace[p][2].arg.held = Null
    /\ \E x \in hist : x.key = trace[p][2].arg.key /\ now - x.time <= TTL
    /\ CacheIndex(geoCache, trace[p][2].arg.key) = 0
    /\ Len(geoCache) = CacheMax

----------------------------------------------------------------------------
(* The forward cache key (claim C11).                                      *)

\* slot p's request is a /geocode_text request that reached geocodeWithCache
IsForward(p) ==
  /\ req[p] # Null
  /\ req[p].endpoint = "/geocode_text"
  /\ Truthy(req[p].direccion) /\ ValidAddress(req[p].direccion)

\* the keys slot p's request looked up, and those it stored a result under
LookedUp(p) ==
  {trace[p][i].arg.key : i \in {j \in DOMAIN trace[p] : IsLookup(trace[p][j])}}

Hits(p) ==
  {trace[p][i].arg : i \in {j \in DOMAIN trace[p] : trace[p][j].op = "cacheHit"}}

Stored(p) ==
  {trace[p][i].arg : i \in {j \in DOMAIN trace[p] : trace[p][j].op = "cacheSet"}}

\* the lower-cased, trimmed address text of slot p's request
LowerTrimmed(p) == ToLowerCase(Trim(req[p].direccion.v))

\* the same with every run of white space replaced by one hyphen
LowerTrimmedHyphened(p) == ReplaceSpaces(ToLowerCase(Trim(req[p].direccion.v)))

\* C11 as stated: two forward lookups share a cache entry exactly when their
\* lower-cased, trimmed address texts are equal, and a cache hit returns a
\* result that was resolved for the same lower-cased, trimmed address.
C11_SameTextSameEntry ==
  \A p, q \in Slots :
    (IsForward(p) /\ IsForward(q)) =>
      /\ (LookedUp(p) \cap LookedUp(q) # {}) <=> (LowerTrimmed(p) = LowerTrimmed(q))
      /\ \A h \in Hits(p) : \A s \in Stored(q) :
           (h.key = s.key /\ h.held = s.value) => LowerTrimmed(p) = LowerTrimmed(q)

\* C11 amended: two forward lookups share a cache entry exactly when their
\* lower-cased, trimmed address texts are equal once every run of white
\* space in them is replaced by one hyphen, and a cache hit returns a result
\* that was resolved for an address equal in that form.
C11_SameHyphenedTextSameEntry ==
  \A p, q \in Slots :
    (IsForward(p) /\ IsForward(q)) =>
      /\ (LookedUp(p) \cap LookedUp(q) # {})
           <=> (LowerTrimmedHyphened(p) = LowerTrimmedHyphened(q))
      /\ \A h \in Hits(p) : \A s \in Stored(q) :
           (h.key = s.key /\ h.held = s.value)
             => LowerTrimmedHyphened(p) = LowerTrimmedHyphened(q)

\* C11 witness: a request hits the entry another request stored, and their
\* lower-cased, trimmed address texts differ (in their white space only)
C11_Witness ==
  \E p, q \in Slots :
    /\ p # q /\ IsForward(p) /\ IsForward(q)
    /\ LowerTrimmed(p) # LowerTrimmed(q)
    /\ \E h \in Hits(p) : \E s \in Stored(q) : h.key = s.key /\ h.held = s.value

----------------------------------------------------------------------------
(* mapQualityToPrecision on its own (claims C12, C13, C14): the function    *)
(* applied to every source, score, found address and original input below.  *)

\* the sources the program grades, and one it never produces
GradeSources == {"predefined_poi", "opencage", "opencage_reverse", "mapbox", "google"}

\* found addresses: with and without a house number, generic ones, postal
\* codes alone, none at all
FoundAddresses ==
  {"Calle Roble 347, 63000 Tepic, Nay., M^xico",
   "Calle Roble, Tepic, Nay., M^xico",
   "Soriana, Tepic, Nayarit",
   "Calle Roble, Nayarit, M^xico",
   "Nayarit, M^xico",
   "63000, M^xico",
   "63000, Nayarit, M^xico",
   " 63173,nayarit,  M^XICO ",
   "63000 Tepic, Nay., M^xico",
   ""}

OriginalInputs == {"Calle Roble 347", "calle roble", ""}

\* the call: its arguments, and its result once it has run
GradeCall(source, qualityScore, direccionEncontrada, originalAddress) ==
  [function |-> "mapQualityToPrecision", source |-> source,
   qualityScore |-> qualityScore, direccionEncontrada |-> direccionEncontrada,
   originalAddress |-> originalAddress, returned |-> FALSE,
   result |-> Grade("", 0)]

InitGrade ==
  /\ geoCache = <<>>
  /\ now = 0
  /\ pc = [p \in Slots |-> "idle"]
  /\ req = [p \in Slots |-> Null]
  /\ loc = [p \in Slots |-> Null]
  /\ res = [p \in Slots |-> <<>>]
  /\ trace = [p \in Slots |-> <<>>]
  /\ served = 0
  /\ hist = {}
  /\ pure \in {GradeCall(s, n, f, o) :
                 s \in GradeSources, n \in Scores, f \in FoundAddresses,
                 o \in OriginalInputs}

GradeRuns ==
  /\ ~pure.returned
  /\ pure' = [pure EXCEPT !.returned = TRUE,
                          !.result = mapQualityToPrecision(pure.source, pure.qualityScore,
                                       pure.direccionEncontrada, pure.originalAddress)]
  /\ UNCHANGED <<geoCache, now, pc, req, loc, res, trace, served, hist>>

SpecGrade == InitGrade /\ [][GradeRuns]_vars

\* the tiers, best first, as ranks
TierRank(calidad) ==
  CASE calidad = "Excelente" -> 4
    [] calidad = "Buena" -> 3
    [] calidad = "Aceptable" -> 2
    [] calidad = "Baja" -> 1
    [] OTHER -> 0

\* the tier and radius the if/else chain on source and score assigns
Bucketed == BucketGrade(pure.source, pure.qualityScore)

\* the two demotion conditions of the call
FoundIsGeneric ==
  \/ IsGenericResult(ToLowerCase(pure.direccionEncontrada))
  \/ IsPostalCodeOnly(Trim(ToLowerCase(pure.direccionEncontrada)))

NumberIsMissing ==
  /\ ~HasDigit(pure.direccionEncontrada)
  /\ HasDigit(pure.originalAddress)

C13_OneStepDown ==
  (/\ pure.returned
   /\ Bucketed.calidad \in {"Buena", "Excelente"}
   /\ NumberIsMissing /\ ~FoundIsGeneric)
    => TierRank(pure.result.calidad) = TierRank(Bucketed.calidad) - 1

\* C13 amended: in that case the tier becomes Aceptable with radius 150 m,
\* from Buena (one step) and from Excelente (two steps) alike.
C13_DownToAceptable ==
  (/\ pure.returned
   /\ Bucketed.calidad \in {"Buena", "Excelente"}
   /\ NumberIsMissing /\ ~FoundIsGeneric)
    => pure.result = Grade("Aceptable", 150)

\* C13 witness: a result bucketed Excelente, found without a house number for
\* an input that has one, graded Aceptable
C13_Witness ==
  /\ pure.returned
  /\ Bucketed.calidad = "Excelente"
  /\ NumberIsMissing /\ ~FoundIsGeneric
  /\ pure.result = Grade("Aceptable", 150)

\* C14: a found address that is only a 5-digit postal code, a comma, and
\* (optionally the region name "Nayarit" and a comma, then) the country name,
\* in any letter case and with any white space around and after the commas,
\* grades Baja with radius 600 m for every source and every score.
C14_PostalCodeOnlyIsBaja ==
  (/\ pure.returned
   /\ pure.direccionEncontrada
        \in {"63000, M^xico", "63000, Nayarit, M^xico", " 63173,nayarit,  M^XICO "})
    => pure.result = Grade("Baja", 600)

\* C14 witness: a postal code alone from the gazetteer's source and from a
\* provider at its highest score, graded Baja
C14_Witness ==
  /\ pure.returned
  /\ pure.direccionEncontrada = "63000, Nayarit, M^xico"
  /\ pure.source \in {"predefined_poi", "opencage"} /\ pure.qualityScore = 10
  /\ Bucketed.calidad = "Excelente"
  /\ pure.result = Grade("Baja", 600)

----------------------------------------------------------------------------
(* parseGoogleMapsLinkImproved.  The link is taken as `new URL(rawUrl)`     *)
(* gives it: its pathname (as written, not decoded), its search parameters  *)
(* (decoded, as searchParams.get returns them; "" when absent) and its hash *)
(* (with its "#"); or as a string that is no URL.                           *)

Url(pathname, data, saddr, daddr, q, ll, sll, hash) ==
  [isUrl |-> TRUE, pathname |-> pathname, data |-> data, saddr |-> saddr,
   daddr |-> daddr, q |-> q, ll |-> ll, sll |-> sll, hash |-> hash]

NotAUrl ==
  [isUrl |-> FALSE, pathname |-> "", data |-> "", saddr |-> "", daddr |-> "",
   q |-> "", ll |-> "", sll |-> "", hash |-> ""]

\* the characters of [-0-9.]
NumChars == Digits \cup {"-", "."}

\* how many characters of the set follow one another in s from index i
RECURSIVE RunLength(_, _, _)
RunLength(s, i, chars) ==
  IF i <= Len(s) /\ CharAt(s, i) \in chars THEN 1 + RunLength(s, i + 1, chars) ELSE 0

DigitValue(c) == CHOOSE d \in 0..9 : DigitChar(d) = c

RECURSIVE StrToNat(_)
StrToNat(s) ==
  IF s = "" THEN 0
  ELSE StrToNat(SubSeq(s, 1, Len(s) - 1)) * 10 + DigitValue(CharAt(s, Len(s)))

RECURSIVE PadRight(_, _)
PadRight(s, width) == IF Len(s) >= width THEN s ELSE PadRight(s \o "0", width)

\* a number in millionths, or NaN
NaN == [nan |-> TRUE, micro |-> 0]
Num(micro) == [nan |-> FALSE, micro |-> micro]

\* parseFloat(s): white space, a sign, digits, a point and digits; what
\* follows is ignored; NaN when there is no digit (no exponent is read, and
\* digits past the sixth decimal are dropped)
parseFloat(s) ==
  LET t == TrimStart(s)
      signed == t # "" /\ CharAt(t, 1) \in {"-", "+"}
      i == IF signed THEN 2 ELSE 1
      n == RunLength(t, i, Digits)
      point == i + n <= Len(t) /\ CharAt(t, i + n) = "."
      f == IF point THEN RunLength(t, i + n + 1, Digits) ELSE 0
      whole == StrToNat(SubSeq(t, i, i + n - 1))
      decimals == StrToNat(PadRight(SubSeq(t, i + n + 1, i + n + (IF f > 6 THEN 6 ELSE f)), 6))
      magnitude == whole * 1000000 + decimals
  IN  IF n = 0 /\ f = 0 THEN NaN
      ELSE Num(IF signed /\ CharAt(t, 1) = "-" THEN -magnitude ELSE magnitude)

\* ([-0-9.]+),([-0-9.]+) matches in s from index i
PairAt(s, i) ==
  LET n1 == RunLength(s, i, NumChars)
  IN  /\ n1 >= 1
      /\ i + n1 <= Len(s) /\ CharAt(s, i + n1) = ","
      /\ RunLength(s, i + n1 + 1, NumChars) >= 1

\* the two groups of that match
PairGroups(s, i) ==
  LET n1 == RunLength(s, i, NumChars)
      n2 == RunLength(s, i + n1 + 1, NumChars)
  IN  <<SubSeq(s, i, i + n1 - 1), SubSeq(s, i + n1 + 1, i + n1 + n2)>>

\* s.match(/^([-0-9.]+),([-0-9.]+)$/)
IsPair(s) ==
  /\ PairAt(s, 1)
  /\ Len(PairGroups(s, 1)[1]) + 1 + Len(PairGroups(s, 1)[2]) = Len(s)

First(S) == CHOOSE i \in S : \A j \in S : i <= j

\* where pathname.match(/@([-0-9.]+),([-0-9.]+)(?:,\d+[a-z]?)?/) matches
AtMatches(pathname) ==
  {i \in 1..Len(pathname) : CharAt(pathname, i) = "@" /\ PairAt(pathname, i + 1)}

\* where s.match(/!3d([-0-9.]+)/) matches, for the tag "!3d" or "!4d"
TagMatches(s, tag) ==
  {i \in 1..(Len(s) - 3) : SubSeq(s, i, i + 2) = tag /\ RunLength(s, i + 3, NumChars) >= 1}

TagGroup(s, tag) ==
  LET i == First(TagMatches(s, tag))
  IN  SubSeq(s, i + 3, i + 2 + RunLength(s, i + 3, NumChars))

\* where hash.match(/([-0-9.]+),([-0-9.]+)/) matches
PairMatches(s) == {i \in 1..Len(s) : PairAt(s, i)}

\* s.split(',')
RECURSIVE Split(_)
Split(s) ==
  LET commas == {i \in 1..Len(s) : CharAt(s, i) = ","}
  IN  IF commas = {} THEN <<s>>
      ELSE <<SubSeq(s, 1, First(commas) - 1)>> \o Split(SubSeq(s, First(commas) + 1, Len(s)))

\* parts.length === 2 && !isNaN(parseFloat(parts[0])) && !isNaN(parseFloat(parts[1]))
TwoNumbers(parts) ==
  Len(parts) = 2 /\ ~parseFloat(parts[1]).nan /\ ~parseFloat(parts[2]).nan

\* s.replace(/\+/g, ' ')
RECURSIVE ReplacePlus(_)
ReplacePlus(s) ==
  IF s = "" THEN ""
  ELSE (IF CharAt(s, 1) = "+" THEN " " ELSE CharAt(s, 1)) \o ReplacePlus(SubSeq(s, 2, Len(s)))

HexChars == Digits \cup {"A", "B", "C", "D", "E", "F", "a", "b", "c", "d", "e", "f"}

\* the character of an escape (those of the texts used here)
Unescaped(hex) ==
  CASE hex = "20" -> " "
    [] hex = "25" -> "%"
    [] hex = "2B" -> "+"
    [] hex = "2C" -> ","
    [] OTHER -> "?"

\* decodeURIComponent(s): the text, or URIError for a "%" that two
\* hexadecimal digits do not follow
RECURSIVE decodeURIComponent(_)
decodeURIComponent(s) ==
  IF s = "" THEN Return("")
  ELSE IF CharAt(s, 1) # "%"
       THEN LET rest == decodeURIComponent(SubSeq(s, 2, Len(s)))
            IN  IF rest.ok THEN Return(CharAt(s, 1) \o rest.value) ELSE rest
  ELSE IF Len(s) >= 3 /\ CharAt(s, 2) \in HexChars /\ CharAt(s, 3) \in HexChars
       THEN LET rest == decodeURIComponent(SubSeq(s, 4, Len(s)))
            IN  IF rest.ok THEN Return(Unescaped(SubSeq(s, 2, 3)) \o rest.value) ELSE rest
  ELSE Throw("URI malformed", "URIError", 0)


\* what one strategy of the parser ends with: a LocationIntent, nothing
\* found, or an exception
Found(info) == [status |-> "found", info |-> info]
NotFound == [status |-> "none", info |-> EmptyInfo]
Raised == [status |-> "raised", info |-> EmptyInfo]

\* { lat: parseFloat(a), lon: parseFloat(b), ... }
Coords(a, b, isOrigin, isDestination, destination) ==
  [hasCoords |-> TRUE, lat |-> parseFloat(a).micro, lon |-> parseFloat(b).micro,
   nan |-> parseFloat(a).nan \/ parseFloat(b).nan, q |-> "",
   isOrigin |-> isOrigin, isDestination |-> isDestination, destination |-> destination]

\* 1) /@lat,lon in the path
AtPath(url) ==
  IF AtMatches(url.pathname) = {} THEN NotFound
  ELSE LET g == PairGroups(url.pathname, First(AtMatches(url.pathname)) + 1)
       IN  Found(Coords(g[1], g[2], FALSE, FALSE, ""))

\* 2) !3d and !4d in the data parameter, or in the fragment
DataFields(url) ==
  LET dataParam == IF url.data # "" THEN url.data ELSE SubSeq(url.hash, 2, Len(url.hash))
  IN  IF TagMatches(dataParam, "!3d") # {} /\ TagMatches(dataParam, "!4d") # {}
      THEN Found(Coords(TagGroup(dataParam, "!3d"), TagGroup(dataParam, "!4d"),
                        FALSE, FALSE, ""))
      ELSE NotFound

\* decodeURIComponent(s.replace(/\+/g, ' ')) as the q of an intent
DecodedText(s, isOrigin, isDestination) ==
  LET text == decodeURIComponent(ReplacePlus(s))
  IN  IF text.ok THEN Found(TextInfo(text.value, isOrigin, isDestination)) ELSE Raised

\* 3) to 5) the origin and the destination of a route
Route(url) ==
  IF url.saddr # "" /\ url.daddr # "" /\ IsPair(url.saddr)
  THEN LET g == PairGroups(url.saddr, 1)
           destination == decodeURIComponent(ReplacePlus(url.daddr))
       IN  IF destination.ok
           THEN Found(Coords(g[1], g[2], TRUE, FALSE, destination.value))
           ELSE Raised
  ELSE IF url.daddr # ""
  THEN IF IsPair(url.daddr)
       THEN LET g == PairGroups(url.daddr, 1)
            IN  Found(Coords(g[1], g[2], FALSE, TRUE, ""))
       ELSE DecodedText(url.daddr, FALSE, TRUE)
  ELSE IF url.saddr # ""
  THEN IF IsPair(url.saddr)
       THEN LET g == PairGroups(url.saddr, 1)
            IN  Found(Coords(g[1], g[2], TRUE, FALSE, ""))
       ELSE DecodedText(url.saddr, TRUE, FALSE)
  ELSE NotFound

\* 6) the q parameter: a coordinate pair, or a text
QueryParam(url) ==
  IF url.q = "" THEN NotFound
  ELSE LET qParts == Split(url.q)
       IN  IF TwoNumbers(qParts)
           THEN Found(Coords(qParts[1], qParts[2], FALSE, FALSE, ""))
           ELSE Found(TextInfo(ReplacePlus(url.q), FALSE, FALSE))

\* 7) the ll parameter, or sll
LlParam(url) ==
  LET llParam == IF url.ll # "" THEN url.ll ELSE url.sll
      llParts == Split(llParam)
  IN  IF llParam # "" /\ TwoNumbers(llParts)
      THEN Found(Coords(llParts[1], llParts[2], FALSE, FALSE, ""))
      ELSE NotFound

\* where pathname.match(/\/(?:place|search)\/([^\/]+)/) matches, as the
\* index of its group
SegmentMatches(pathname) ==
  {i \in 1..Len(pathname) :
     /\ \/ i > 7 /\ SubSeq(pathname, i - 7, i - 1) = "/place/"
        \/ i > 8 /\ SubSeq(pathname, i - 8, i - 1) = "/search/"
     /\ CharAt(pathname, i) # "/"}

RECURSIVE UpToSlash(_, _)
UpToSlash(s, i) ==
  IF i <= Len(s) /\ CharAt(s, i) # "/" THEN CharAt(s, i) \o UpToSlash(s, i + 1) ELSE ""

\* 8) the name after /place/ or /search/
PlaceSegment(url) ==
  IF SegmentMatches(url.pathname) = {} THEN NotFound
  ELSE LET text == decodeURIComponent(UpToSlash(url.pathname, First(SegmentMatches(url.pathname))))
       IN  IF text.ok THEN Found(TextInfo(ReplacePlus(text.value), FALSE, FALSE)) ELSE Raised

\* 9) a coordinate pair in the fragment
Fragment(url) ==
  IF PairMatches(url.hash) = {} THEN NotFound
  ELSE LET g == PairGroups(url.hash, First(PairMatches(url.hash)))
       IN  Found(Coords(g[1], g[2], FALSE, FALSE, ""))

\* the strategies, in the order of the code
Strategies(url) ==
  <<AtPath(url), DataFields(url), Route(url), QueryParam(url), LlParam(url),
    PlaceSegment(url), Fragment(url)>>

\* the strategies run one after the other until one returns; the catch
\* around them all returns {}
RECURSIVE RunFrom(_, _)
RunFrom(attempts, i) ==
  IF i > Len(attempts) THEN EmptyInfo
  ELSE IF attempts[i].status = "found" THEN attempts[i].info
  ELSE IF attempts[i].status = "raised" THEN EmptyInfo
  ELSE RunFrom(attempts, i + 1)

parseGoogleMapsLinkImproved(url) ==
  IF ~url.isUrl THEN EmptyInfo ELSE RunFrom(Strategies(url), 1)


----------------------------------------------------------------------------
(* POST /geocode_link on its own: one client sends one link, given by its  *)
(* final URL (after the redirects and the clean-up); the handler parses it *)
(* and goes on from what the parser gave.                                   *)

Plain == Url("/maps", "", "", "", "", "", "", "")

\* the final URLs: one for each strategy, several strategies at once, texts
\* with a "%", a path with a malformed escape, numbers that are no numbers,
\* a URL with nothing in it, and a string that is no URL
LinkUrls ==
  {[Plain EXCEPT !.pathname = "/maps/@21.5,-104.89,15z"],
   [Plain EXCEPT !.pathname = "/maps/place/Plaza+Tepic/@21.5,-104.89,15z",
                 !.data = "!3d21.543!4d-105.285"],
   [Plain EXCEPT !.pathname = "/maps/@-,.", !.q = "Plaza Tepic"],
   [Plain EXCEPT !.pathname = "/maps/@95.5,-104.89"],
   [Plain EXCEPT !.data = "!4m2!3d21.5!4d-104.89", !.q = "Plaza Tepic"],
   [Plain EXCEPT !.hash = "#!3d21.5!4d-104.89", !.daddr = "Plaza Tepic"],
   [Plain EXCEPT !.data = "!3d21.5", !.ll = "21.543,-105.285"],
   [Plain EXCEPT !.saddr = "21.5,-104.89", !.daddr = "Plaza Tepic"],
   [Plain EXCEPT !.saddr = "21.5,-104.89", !.daddr = "Plaza%20Tepic"],
   [Plain EXCEPT !.saddr = "21.5,-104.89", !.daddr = "21.543,-105.285"],
   [Plain EXCEPT !.saddr = "21.5,-104.89", !.daddr = "50% de descuento"],
   [Plain EXCEPT !.saddr = "Plaza Tepic", !.daddr = "21.543,-105.285", !.q = "soriana"],
   [Plain EXCEPT !.saddr = "Plaza Tepic", !.daddr = "Calle Roble 347"],
   [Plain EXCEPT !.daddr = "21.543,-105.285"],
   [Plain EXCEPT !.daddr = "Calle+Roble 347"],
   [Plain EXCEPT !.daddr = "100% natural", !.q = "Plaza Tepic"],
   [Plain EXCEPT !.saddr = "21.5,-104.89", !.hash = "#21.543,-105.285"],
   [Plain EXCEPT !.saddr = "Plaza Tepic", !.ll = "21.5,-104.89"],
   [Plain EXCEPT !.saddr = "100% natural", !.pathname = "/maps/place/Plaza+Tepic"],
   [Plain EXCEPT !.q = "21.5,-104.89"],
   [Plain EXCEPT !.q = "Plaza Tepic", !.ll = "21.5,-104.89"],
   [Plain EXCEPT !.q = "5 de Mayo 12, 300 Tepic"],
   [Plain EXCEPT !.q = "100% natural"],
   [Plain EXCEPT !.q = "ab"],
   [Plain EXCEPT !.ll = "21.5,-104.89", !.pathname = "/maps/search/soriana"],
   [Plain EXCEPT !.sll = "21.5,-104.89"],
   [Plain EXCEPT !.ll = "21.5", !.sll = "21.5,-104.89", !.pathname = "/maps/search/soriana"],
   [Plain EXCEPT !.pathname = "/maps/place/Plaza+Tepic/data=!3d21.5!4d-104.89"],
   [Plain EXCEPT !.pathname = "/maps/place/Plaza%20Tepic", !.hash = "#21.5,-104.89"],
   [Plain EXCEPT !.pathname = "/maps/place/100%/", !.hash = "#21.5,-104.89"],
   [Plain EXCEPT !.pathname = "/maps/place/Plaza%2"],
   [Plain EXCEPT !.pathname = "/maps/search/"],
   [Plain EXCEPT !.hash = "#map=21.5,-104.89,15z"],
   [Plain EXCEPT !.hash = "#Plaza,Tepic"],
   Plain,
   NotAUrl}

\* const info = parseGoogleMapsLinkImproved(finalUrl)
LinkOf(url) ==
  [endpoint |-> "/geocode_link", validUrl |-> TRUE, url |-> url,
   info |-> parseGoogleMapsLinkImproved(url)]

LinkOpenCageAnswers ==
  {Payload(<<At(PTepic, "Plaza Tepic, 63000 Tepic, Nay., M^xico", 9, Tepic)>>),
   Payload(<<>>), Timeout}

LinkMapboxAnswers ==
  {Payload(<<At(PTepic, "Plaza Tepic, Tepic, Nayarit 63000, M^xico", 9, Tepic)>>),
   Payload(<<>>), RateLimited}

NextLink ==
  \/ \E url \in LinkUrls : served < 1 /\ Receive(1, LinkOf(url))
  \/ \E resp \in LinkOpenCageAnswers : OpenCageResponds(1, resp)
  \/ \E resp \in LinkMapboxAnswers : MapboxResponds(1, resp)
  \/ \E resp \in ReverseAnswers : ReverseResponds(1, resp)

SpecLink == InitServer /\ [][NextLink]_vars

\* slot p serves a link given by its final URL
IsLink(p) == req[p] # Null /\ req[p].endpoint = "/geocode_link" /\ "url" \in DOMAIN req[p]

\* the strategies that gave an intent for the URL, by their place in the order
Succeeding(url) == {i \in 1..Len(Strategies(url)) : Strategies(url)[i].status = "found"}

\* C15: the parser tries the strategies in the order '@lat,lon' path, data
\* fields, route origin/destination, generic query parameter, ll/sll,
\* place/search path segment, coordinate pair in the fragment, and returns
\* the result of the first that succeeds: for every URL with a succeeding
\* strategy, what the parser returned is what the first of them gives.
C15_FirstSucceedingStrategy ==
  \A p \in Slots :
    IsLink(p) /\ req[p].url.isUrl /\ Succeeding(req[p].url) # {} =>
      req[p].info = Strategies(req[p].url)[First(Succeeding(req[p].url))].info

\* a link whose destination text holds a "%" and which has a q parameter:
\* the parser gave {} and the handler answered that the link has no location
C15_Witness ==
  /\ IsLink(1)
  /\ req[1].url.daddr = "100% natural" /\ req[1].url.q = "Plaza Tepic"
  /\ Strategies(req[1].url)[3].status = "raised"
  /\ First(Succeeding(req[1].url)) = 4
  /\ req[1].info = EmptyInfo
  /\ Answered(1, 400, "UNPARSABLE_LINK_CONTENT")


----------------------------------------------------------------------------
(* Route links (claim C16).                                                 *)

\* slot p serves a link that reaches the route strategy: a URL without
\* '@lat,lon' in its path and without data fields
IsRouteLink(p) ==
  /\ IsLink(p) /\ req[p].url.isUrl
  /\ AtPath(req[p].url).status = "none" /\ DataFields(req[p].url).status = "none"

\* the intent holds the coordinate written as 'lat,lon' in the text
HoldsPoint(info, text) ==
  /\ info.hasCoords /\ ~info.nan
  /\ info.lat = parseFloat(PairGroups(text, 1)[1]).micro
  /\ info.lon = parseFloat(PairGroups(text, 1)[2]).micro

\* the intent holds the coordinate of the parameter, or its text
HoldsParam(info, param) ==
  IF IsPair(param) THEN HoldsPoint(info, param) ELSE ~info.hasCoords /\ info.q = param

\* C16: for a route link, when origin and destination are both present and
\* the origin is 'lat,lon' the parser returns the origin coordinate with
\* isOrigin and the decoded destination text; when only the destination is
\* present it returns its coordinate or its text with isDestination; when
\* only the origin is present it returns its coordinate or its text with
\* isOrigin; what is marked as origin comes from the origin and what is
\* marked as destination comes from the destination.
C16_RouteEnds ==
  \A p \in Slots :
    IsRouteLink(p) =>
      LET url == req[p].url
          info == req[p].info
      IN  /\ url.saddr # "" /\ url.daddr # "" /\ IsPair(url.saddr) =>
               /\ HoldsPoint(info, url.saddr)
               /\ info.isOrigin /\ ~info.isDestination
               /\ info.destination = url.daddr
          /\ url.saddr = "" /\ url.daddr # "" =>
               HoldsParam(info, url.daddr) /\ info.isDestination /\ ~info.isOrigin
          /\ url.saddr # "" /\ url.daddr = "" =>
               HoldsParam(info, url.saddr) /\ info.isOrigin /\ ~info.isDestination
          /\ info.isOrigin => url.saddr # "" /\ HoldsParam(info, url.saddr)
          /\ info.isDestination => url.daddr # "" /\ HoldsParam(info, url.daddr)

\* a route from a coordinate to a text with a "%": the parser gave {} and
\* the handler answered that the link has no location
C16_Witness ==
  /\ IsRouteLink(1)
  /\ req[1].url.saddr = "21.5,-104.89" /\ req[1].url.daddr = "50% de descuento"
  /\ Route(req[1].url).status = "raised"
  /\ req[1].info = EmptyInfo
  /\ Answered(1, 400, "UNPARSABLE_LINK_CONTENT")


----------------------------------------------------------------------------
(* Links without a location (claim C17).                                    *)

\* the events of slot p's request that are a cache lookup, a cache write or
\* a request to a provider
Lookups(p) ==
  {i \in DOMAIN trace[p] :
     IsLookup(trace[p][i]) \/ trace[p][i].op \in {"cacheSet", "axios.get", "response"}}

\* C17: the parser is total: for a string that is no URL, a URL without a
\* recognizable parameter and a URL with a malformed percent escape it
\* returns an intent and does not raise, and the intent is {} whenever no
\* strategy succeeds; for the intent {} the handler answers 400
\* UNPARSABLE_LINK_CONTENT without a cache lookup and without a provider
\* request.
C17_TotalParser ==
  \A p \in Slots :
    IsLink(p) =>
      /\ pc[p] # "rejected"
      /\ ~req[p].url.isUrl \/ Succeeding(req[p].url) = {} => req[p].info = EmptyInfo
      /\ req[p].info = EmptyInfo =>
           /\ Answered(p, 400, "UNPARSABLE_LINK_CONTENT")
           /\ Lookups(p) = {}
           /\ geoCache = <<>>

\* a link whose place segment has a malformed escape and nothing else: the
\* parser gave {} and the handler answered without asking anyone
C17_Witness ==
  /\ IsLink(1)
  /\ req[1].url.pathname = "/maps/place/Plaza%2"
  /\ PlaceSegment(req[1].url).status = "raised"
  /\ Succeeding(req[1].url) = {}
  /\ req[1].info = EmptyInfo
  /\ Answered(1, 400, "UNPARSABLE_LINK_CONTENT")
  /\ Lookups(1) = {}


----------------------------------------------------------------------------
(* calculateCost on its own (claims C18, C19, C20).  A distance is a       *)
(* number of hundredths of a kilometre, as the handler passes it            *)
(* (parseFloat(toFixed(2))), or NaN, or an infinity; amounts inside the     *)
(* function are in hundredths of a unit.  In double arithmetic the error of *)
(* km is far below the hundredths the schedule works in, and where the      *)
(* schedule gives a half (5.05 km, 5.15 km, ..., 10.5 km) the sum with the  *)
(* base price is the half itself, so that Math.round sees the exact amount. *)

\* the last tier's maxKm, Infinity, is written 0: the code never reads it
PRICING ==
  [BASE_PRICE |-> 50,
   TIERS |-> <<[maxKm |-> 5, rate |-> 0], [maxKm |-> 10, rate |-> 10],
               [maxKm |-> 15, rate |-> 9], [maxKm |-> 0, rate |-> 8]>>]

Kilometres(d) == [nan |-> FALSE, inf |-> 0, hundredths |-> d]
KmNaN == [nan |-> TRUE, inf |-> 0, hundredths |-> 0]
KmInfinity == [nan |-> FALSE, inf |-> 1, hundredths |-> 0]
KmMinusInfinity == [nan |-> FALSE, inf |-> -1, hundredths |-> 0]

\* what the function returns: a whole number of units, or Infinity
Units(n) == [nan |-> FALSE, inf |-> 0, units |-> n]
InfiniteUnits == [nan |-> FALSE, inf |-> 1, units |-> 0]

\* km < 0
IsNegative(km) == ~km.nan /\ (km.inf = -1 \/ (km.inf = 0 /\ km.hundredths < 0))

\* Math.round of an amount in hundredths: the nearest whole number, a half
\* going up
MathRound(x) == (x + 50) \div 100

Max(a, b) == IF a >= b THEN a ELSE b

\* calculatedPrice of the branch of each tier, for d hundredths of a km
TierPrice(tier, d) ==
  LET base == PRICING.BASE_PRICE * 100
      rate(i) == PRICING.TIERS[i].rate
      span(i) == (PRICING.TIERS[i].maxKm - PRICING.TIERS[i - 1].maxKm) * 100
  IN  CASE tier = 1 -> base
        [] tier = 2 -> base + (d - PRICING.TIERS[1].maxKm * 100) * rate(2)
        [] tier = 3 -> base + span(2) * rate(2) + (d - PRICING.TIERS[2].maxKm * 100) * rate(3)
        [] tier = 4 -> base + span(2) * rate(2) + span(3) * rate(3)
                         + (d - PRICING.TIERS[3].maxKm * 100) * rate(4)

\* the tiers added up without the amounts of the tiers below
CostPerTier(km) ==
  IF km.nan \/ IsNegative(km) THEN Units(PRICING.BASE_PRICE)
  ELSE IF km.inf = 1 THEN InfiniteUnits
  ELSE LET d == km.hundredths
           tier == IF d <= 500 THEN 1 ELSE IF d <= 1000 THEN 2 ELSE IF d <= 1500 THEN 3 ELSE 4
           calculatedPrice ==
             PRICING.BASE_PRICE * 100
               + (IF tier = 1 THEN 0
                  ELSE (d - PRICING.TIERS[tier - 1].maxKm * 100) * PRICING.TIERS[tier].rate)
       IN  Units(Max(PRICING.BASE_PRICE, MathRound(calculatedPrice)))

\* the amount cut to whole units instead of rounded
CostTruncated(km) ==
  IF km.nan \/ IsNegative(km) THEN Units(PRICING.BASE_PRICE)
  ELSE IF km.inf = 1 THEN InfiniteUnits
  ELSE LET d == km.hundredths
           tier == IF d <= 500 THEN 1 ELSE IF d <= 1000 THEN 2 ELSE IF d <= 1500 THEN 3 ELSE 4
       IN  Units(Max(PRICING.BASE_PRICE, TierPrice(tier, d) \div 100))

calculateCost(km) ==
  IF km.nan \/ IsNegative(km) THEN Units(PRICING.BASE_PRICE)
  ELSE IF km.inf = 1
  THEN \* every km <= maxKm is false but the last; (Infinity - 15) * 8 is Infinity
       InfiniteUnits
  ELSE LET d == km.hundredths
           tier == IF d <= PRICING.TIERS[1].maxKm * 100 THEN 1
                   ELSE IF d <= PRICING.TIERS[2].maxKm * 100 THEN 2
                   ELSE IF d <= PRICING.TIERS[3].maxKm * 100 THEN 3
                   ELSE 4
       IN  Units(Max(PRICING.BASE_PRICE, MathRound(TierPrice(tier, d))))

\* the longest distance, and the most negative one, in hundredths of a km
MaxHundredths == 2000
MaxNegative == 300

Distances == 0..MaxHundredths

FareInputs ==
  {Kilometres(d) : d \in (0 - MaxNegative)..MaxHundredths}
    \cup {KmNaN, KmInfinity, KmMinusInfinity}

FareCall(km) ==
  [function |-> "calculateCost", km |-> km, returned |-> FALSE, result |-> Units(0)]

InitFare ==
  /\ geoCache = <<>>
  /\ now = 0
  /\ pc = [p \in Slots |-> "idle"]
  /\ req = [p \in Slots |-> Null]
  /\ loc = [p \in Slots |-> Null]
  /\ res = [p \in Slots |-> <<>>]
  /\ trace = [p \in Slots |-> <<>>]
  /\ served = 0
  /\ hist = {}
  /\ pure \in {FareCall(km) : km \in FareInputs}

FareRuns ==
  /\ ~pure.returned
  /\ pure' = [pure EXCEPT !.returned = TRUE, !.result = calculateCost(pure.km)]
  /\ UNCHANGED <<geoCache, now, pc, req, loc, res, trace, served, hist>>

SpecFare == InitFare /\ [][FareRuns]_vars

\* the call was made with a distance of zero or more, and has returned
QuotedDistance == pure.returned /\ ~pure.km.nan /\ pure.km.inf = 0 /\ pure.km.hundredths >= 0

\* the cumulative schedule of the tiers, in hundredths of a unit, for d
\* hundredths of a kilometre
Schedule(d) ==
  IF d <= 500 THEN 5000
  ELSE IF d <= 1000 THEN 5000 + (d - 500) * 10
  ELSE IF d <= 1500 THEN 10000 + (d - 1000) * 9
  ELSE 14500 + (d - 1500) * 8

\* C18: for every distance d >= 0 in hundredths of a kilometre the fare is
\* the cumulative schedule (50 up to 5 km, then 10 per km up to 10 km, 9 per
\* km up to 15 km, 8 per km beyond) rounded to the nearest whole unit; 8 km
\* gives 80, 8.5 km gives 85 and 20 km gives 185.
C18_ScheduleRounded ==
  QuotedDistance =>
    LET d == pure.km.hundredths
        fare == pure.result
    IN  /\ fare.inf = 0 /\ ~fare.nan
        /\ Abs(fare.units * 100 - Schedule(d)) <= 50
        /\ d = 800 => fare.units = 80
        /\ d = 850 => fare.units = 85
        /\ d = 2000 => fare.units = 185

\* a distance in the second tier whose amount is not whole
C18_Witness ==
  /\ QuotedDistance
  /\ pure.km.hundredths = 856
  /\ pure.result = Units(86)


\* the fare of a distance of d hundredths of a kilometre
FareOf(d) == calculateCost(Kilometres(d)).units

\* C19: the fare is monotonic non-decreasing in the distance (d1 <= d2
\* implies calculateCost(d1) <= calculateCost(d2)); at 5, 10 and 15 km the
\* formula of the tier below and that of the tier above give the same
\* amount; and 0.01 km more never changes the fare by more than one unit,
\* which is more than the highest rate gives for 0.01 km.
C19_MonotonicAndContinuous ==
  QuotedDistance =>
    LET d2 == pure.km.hundredths
    IN  /\ \A d1 \in Distances : d1 <= d2 => FareOf(d1) <= pure.result.units
        /\ \A tier \in 1..3 :
             d2 = PRICING.TIERS[tier].maxKm * 100 =>
               /\ TierPrice(tier, d2) = TierPrice(tier + 1, d2)
               /\ FareOf(d2 + 1) - pure.result.units <= 1
        /\ d2 > 0 => pure.result.units - FareOf(d2 - 1) \in {0, 1}

\* the fare just past the boundary of 10 km: one unit more than at 10 km
\* after nine hundredths, none after one
C19_Witness ==
  /\ QuotedDistance
  /\ pure.km.hundredths = 1000
  /\ pure.result = Units(100)
  /\ TierPrice(2, 1000) = 10000 /\ TierPrice(3, 1000) = 10000
  /\ FareOf(1001) = 100 /\ FareOf(1006) = 101


----------------------------------------------------------------------------
(* The five endpoints, one request at a time: every kind of body, valid    *)
(* and invalid, for each of them.                                           *)

ApiRequests ==
  GateRequests
    \cup HybridRequests
    \cup {LinkOf(url) : url \in LinkUrls}
    \cup {ReverseOriginRequest(JNum(point[1]), JNum(point[2])) :
            point \in {PTepic, PGuadalajara, <<95500000, -104890000>>,
                       <<21500000, -190000000>>}}
    \cup {ReverseOriginRequest(JUndef, JNum(PTepic[2])),
          ReverseOriginRequest(JStr("21.5"), JStr("-104.89")),
          ReverseOriginRequest(JNum(0), JNum(0))}
    \cup {TextRequest(JStr(" ab ")), TextRequest(JNum(63000)), TextRequest(JStr("abc"))}
    \cup {FareRequest(JNum(PGuadalajara[1]), JNum(PGuadalajara[2]),
                      JNum(PTepic[1]), JNum(PTepic[2]), JStr("Casa de Ana"), Phone),
          FareRequest(JNum(PGuadalajara[1]), JNum(PGuadalajara[2]), JUndef, JUndef,
                      JStr("Calle Roble 347"), Phone),
          FareRequest(JNum(95500000), JNum(Origin[2]), JNum(PTepic[1]), JNum(PTepic[2]),
                      JStr("Casa de Ana"), Phone),
          FareRequest(JNum(Origin[1]), JNum(Origin[2]), JNum(PTepic[1]), JUndef,
                      JStr("Calle Roble 347"), Phone),
          FareRequest(JNum(Origin[1]), JNum(Origin[2]), JStr("21.5"), JStr("-104.89"),
                      JStr("Calle Roble 347"), Phone),
          FareRequest(JNum(Origin[1]), JNum(Origin[2]), JUndef, JUndef, JStr("ab"), Phone),
          FareRequest(JNum(Origin[1]), JNum(Origin[2]), JNum(PTepic[1]), JNum(PTepic[2]),
                      JStr("Casa de Ana"), JStr(" 311123456 ")),
          FareRequest(JNum(Origin[1]), JNum(Origin[2]), JNum(PTepic[1]), JNum(PTepic[2]),
                      JStr("Casa de Ana"), JUndef),
          FareRequest(JNum(Origin[1]), JNum(Origin[2]), JNum(PTepic[1]), JNum(PTepic[2]),
                      JStr("Casa de Ana"), JNum(311123))}

NextApi ==
  \/ \E r \in ApiRequests : served < 1 /\ Receive(1, r)
  \/ \E resp \in GateOpenCageAnswers : OpenCageResponds(1, resp)
  \/ \E resp \in GateMapboxAnswers : MapboxResponds(1, resp)
  \/ \E resp \in ReverseAnswers : ReverseResponds(1, resp)

SpecApi == InitServer /\ [][NextApi]_vars

\* the two values are given, and are no coordinate: not both numbers, or
\* out of range
BadCoordinate(lat, lon) == ~ValidCoordinates(lat, lon)

\* the value is a text of at most 3 characters once trimmed
ShortText(j) == j.type = "string" /\ Len(Trim(j.v)) <= 3

\* the value is a text of fewer than 10 characters
ShortPhone(j) == j.type = "string" /\ Len(Trim(j.v)) < 10

\* the request holds an invalid input among those the endpoint reads
HasInvalidInput(r) ==
  CASE r.endpoint \in {"/geocode_text", "/validate_address"} -> ShortText(r.direccion)
    [] r.endpoint = "/reverse_origin" -> BadCoordinate(r.lat, r.lon)
    [] r.endpoint = "/geocode_link" ->
         /\ r.validUrl
         /\ \/ r.info.hasCoords /\ (r.info.nan \/ BadCoordinate(JNum(r.info.lat), JNum(r.info.lon)))
            \/ ~r.info.hasCoords /\ r.info.q # "" /\ ShortText(JStr(r.info.q))
    [] r.endpoint = "/calculate_fare" ->
         \/ BadCoordinate(r.lat1, r.lon1)
         \/ ShortPhone(r.telefono)
         \/ (r.lat2 # JUndef \/ r.lon2 # JUndef) /\ BadCoordinate(r.lat2, r.lon2)
         \/ r.lat2 = JUndef /\ r.lon2 = JUndef /\ ShortText(r.destino)

\* C21: invalid input is rejected before any resolution attempt: in every
\* endpoint a malformed or out-of-range coordinate (the destination
\* coordinates of /calculate_fare included), an address text of at most 3
\* trimmed characters or a phone text shorter than 10 characters yields an
\* error response for invalid input, and no cache lookup and no provider
\* request happens for that request.
C21_InvalidInputRejected ==
  \A p \in Slots :
    req[p] # Null /\ HasInvalidInput(req[p]) =>
      /\ pc[p] = "done" /\ Len(res[p]) = 1 /\ res[p][1].status = 400
      /\ Lookups(p) = {}

\* a fare request whose destination coordinate is out of range and which
\* has a destination text: the handler asked provider A for the text
C21_Witness ==
  /\ req[1] # Null /\ req[1].endpoint = "/calculate_fare"
  /\ req[1].lat2 = JNum(200000000) /\ req[1].lon2 = JNum(0)
  /\ BadCoordinate(req[1].lat2, req[1].lon2)
  /\ req[1].destino = JStr("Calle Roble 347")
  /\ pc[1] = "awaitA"
  /\ Calls(1, "opencage") = 1


----------------------------------------------------------------------------
(* The reverse geocoding of the geography gate (claim C22).                 *)

\* the locations geocodeWithCache resolved for slot p's request that are
\* inside the box and whose own components give no municipality
Undetermined(p) ==
  {o.value : o \in {x \in Outcomes(p, "geocodeWithCache") :
                      /\ x.ok /\ InBox(x.value.lat, x.value.lon)
                      /\ \/ ~x.value.components.defined
                         \/ Municipality(x.value.components) = ""}}

\* slot p serves a request of /geocode_text or /geocode_link that has ended
\* and whose location was resolved from a text
GateDecided(p) ==
  /\ req[p] # Null /\ req[p].endpoint \in {"/geocode_text", "/geocode_link"}
  /\ Ended(p)
  /\ Undetermined(p) # {}

----------------------------------------------------------------------------
(* Fare quotes (claim C23).                                                 *)

\* slot p's request of /calculate_fare was answered with a quote
Quoted(p) ==
  /\ req[p] # Null /\ req[p].endpoint = "/calculate_fare"
  /\ Answered(p, 200, "")

\* C23: /calculate_fare computes a fare only from a validated pair of
\* origin and destination: every quote it returns has its origin coordinate
\* and its destination coordinate inside the service bounding box.
C23_QuoteInsideBox ==
  \A p \in Slots :
    Quoted(p) =>
      /\ InBox(res[p][1].body.lat_origen, res[p][1].body.lon_origen)
      /\ InBox(res[p][1].body.lat_destino, res[p][1].body.lon_destino)

\* a quote from Guadalajara, outside the box, to a destination inside it
C23_Witness ==
  \E p \in Slots :
    /\ Quoted(p)
    /\ req[p].lat1 = JNum(PGuadalajara[1]) /\ req[p].lon1 = JNum(PGuadalajara[2])
    /\ res[p][1].body.lat_origen = PGuadalajara[1]
    /\ OutOfBounds(res[p][1].body.lat_origen, res[p][1].body.lon_origen)
    /\ InBox(res[p][1].body.lat_destino, res[p][1].body.lon_destino)


----------------------------------------------------------------------------
(* Error codes (claim C24): two requests served at once, so that what one  *)
(* failure and what another are answered with can be compared.              *)

CodesRequests ==
  {LinkRequest(TRUE, CoordsInfo(point, FALSE, FALSE)) : point \in {PTepic, PIslitas, PGuadalajara}}
    \cup {LinkRequest(TRUE, TextInfo("Calle Roble 347", FALSE, TRUE)),
          TextRequest(JStr("Calle Roble 347")),
          TextRequest(JStr("calle roble")),
          ValidateRequest(JStr("Calle Roble 347")),
          ReverseOriginRequest(JNum(PTepic[1]), JNum(PTepic[2])),
          ReverseOriginRequest(JNum(PIslitas[1]), JNum(PIslitas[2]))}

CodesOpenCageAnswers ==
  {Payload(<<At(PTepic, "Calle Roble 347, Santa Mar|a del Oro, Nay., M^xico", 8, SantaMaria)>>),
   Payload(<<At(PTepic, "Calle Roble, M^xico", 8, NoComponents)>>),
   Payload(<<At(PGuadalajara, "Calle Roble, Guadalajara, M^xico", 10, NoMunicipality)>>),
   Payload(<<>>), Timeout}

CodesMapboxAnswers == {Payload(<<>>), RateLimited}

CodesReverseAnswers ==
  {Payload(<<At(PTepic, "Santa Mar|a del Oro, Nay., M^xico", 8, SantaMaria)>>),
   Payload(<<>>), Timeout, NoDns}

NextCodes ==
  \/ \E p \in Slots : \E r \in CodesRequests : served < 2 /\ Receive(p, r)
  \/ \E p \in Slots : \E resp \in CodesOpenCageAnswers : OpenCageResponds(p, resp)
  \/ \E p \in Slots : \E resp \in CodesMapboxAnswers : MapboxResponds(p, resp)
  \/ \E p \in Slots : \E resp \in CodesReverseAnswers : ReverseResponds(p, resp)

SpecCodes == InitServer /\ [][NextCodes]_vars

\* slot p's request was answered with an error
Failed(p) ==
  /\ req[p] # Null /\ pc[p] = "done" /\ Len(res[p]) = 1
  /\ res[p][1].status >= 400

\* the reverse geocoding of slot p's request found no address, or failed
\* otherwise, in an endpoint whose handler ends on that
ReverseThrew(p) ==
  {o \in Outcomes(p, "reverseGeocodeWithCache") :
     ~o.ok /\ req[p].endpoint \in {"/geocode_link", "/reverse_origin"}}

\* the coordinate slot p's request resolved: the geocoder's, or the link's
ResolvedPoints(p) ==
  {<<o.value.lat, o.value.lon>> :
     o \in {x \in Outcomes(p, "geocodeWithCache") \cup Outcomes(p, "geocodeHybrid") : x.ok}}
    \cup (IF req[p].endpoint = "/geocode_link" /\ req[p].info.hasCoords
          THEN {<<req[p].info.lat, req[p].info.lon>>} ELSE {})

\* the kind of failure slot p's request ended with
FailureKind(p) ==
  IF \E o \in Outcomes(p, "geocodeWithCache") \cup Outcomes(p, "geocodeHybrid") : ~o.ok
  THEN "Unresolvable"
  ELSE IF \E o \in ReverseThrew(p) : Includes(o.message, "No se encontr% direcci%n")
  THEN "AddressNotFound"
  ELSE IF ReverseThrew(p) # {} THEN "InternalError"
  ELSE IF \E point \in ResolvedPoints(p) : OutOfBounds(point[1], point[2]) THEN "OutOfBounds"
  ELSE IF ResolvedPoints(p) # {} THEN "OutOfServiceArea"
  ELSE "InvalidInput"

\* C24: each failure kind maps to its own error code: within each endpoint
\* the outcomes Unresolvable, AddressNotFound, OutOfBounds, OutOfServiceArea
\* and internal error are answered with pairwise distinct codes.
C24_DistinctCodes ==
  \A p, q \in Slots :
    /\ Failed(p) /\ Failed(q)
    /\ req[p].endpoint = req[q].endpoint
    /\ FailureKind(p) # FailureKind(q)
    => res[p][1].code # res[q][1].code

\* two links with a coordinate: for one the reverse geocoding found no
\* address, for the other it timed out, and both got the same code
C24_Witness ==
  /\ Failed(1) /\ Failed(2)
  /\ req[1].endpoint = "/geocode_link" /\ req[2].endpoint = "/geocode_link"
  /\ FailureKind(1) = "AddressNotFound" /\ FailureKind(2) = "InternalError"
  /\ Payload(<<>>) \in Responses(1, "opencage_reverse")
  /\ Timeout \in Responses(2, "opencage_reverse")
  /\ res[1][1].code = "INTERNAL_LINK_PROCESSING_ERROR"
  /\ res[2][1].code = "INTERNAL_LINK_PROCESSING_ERROR"


----------------------------------------------------------------------------
(* No retry (claim C25).                                                    *)

\* where in slot p's trace a request to the provider was sent, and where
\* its answer (a result, a failure, a timeout) came
SentAt(p, provider) ==
  {i \in DOMAIN trace[p] : trace[p][i].op = "axios.get" /\ trace[p][i].arg = provider}
AnsweredAt(p, provider) ==
  {i \in DOMAIN trace[p] : trace[p][i].op = "response" /\ trace[p][i].arg.from = provider}

\* C25: within one geocodeHybrid call each provider receives at most one
\* request; provider A's request is sent only after the gazetteer missed
\* and has completed (result, failure or timeout) before provider B's
\* request is sent; and a provider that failed is not asked again.
C25_NoRetry ==
  \A p \in Slots :
    CallsHybrid(p) =>
      /\ Cardinality(SentAt(p, "opencage")) <= 1
      /\ Cardinality(SentAt(p, "mapbox")) <= 1
      /\ SentAt(p, "opencage") # {} => ~GazetteerMatches(HybridInput(p))
      /\ \A j \in SentAt(p, "mapbox") :
           /\ \E i \in SentAt(p, "opencage") : i < j
           /\ \E i \in AnsweredAt(p, "opencage") : i < j
      /\ \A provider \in {"opencage", "mapbox"} :
           \A i \in AnsweredAt(p, provider) :
             ~trace[p][i].arg.resp.ok => \A j \in SentAt(p, provider) : j < i

\* provider A timed out, provider B was asked once and failed too, and the
\* call ended without another request
C25_Witness ==
  /\ CallsHybrid(1)
  /\ Timeout \in Responses(1, "opencage") /\ RateLimited \in Responses(1, "mapbox")
  /\ Calls(1, "opencage") = 1 /\ Calls(1, "mapbox") = 1
  /\ pc[1] = "done"
  /\ \E o \in Outcomes(1, "geocodeHybrid") : ~o.ok


----------------------------------------------------------------------------
(* Concurrent calls for one key (claim C26).                               *)

\* the positions of the cache that hold the key
Holding(c, key) == {n \in DOMAIN c : c[n].key = key}

\* slot p's geocodeWithCache missed the key, asked provider A and stored
\* the value under the key
MissedAndStored(p, key, value) ==
  /\ \E i \in DOMAIN trace[p] : trace[p][i].op = "cacheMiss" /\ trace[p][i].arg.key = key
  /\ Calls(p, "opencage") = 1
  /\ \E i \in DOMAIN trace[p] :
       trace[p][i] = Ev("cacheSet", [key |-> key, value |-> value])

\* C26: whatever the interleaving of the calls, the cache never holds two
\* entries for one key; at the step in which a geocodeWithCache call stores
\* its result the cache afterwards holds exactly one entry for the key, the
\* complete result just written (the last write wins), which is the result
\* of the call's own resolution and the value the call returns; and a call
\* that hits returns the value the cache held.
C26_LastWriteWins ==
  /\ [](\A key \in {geoCache[n].key : n \in DOMAIN geoCache} :
          Cardinality(Holding(geoCache, key)) = 1)
  /\ [][\A p \in Slots : \A i \in DOMAIN NewEvents(p) :
          LET e == NewEvents(p)[i]
          IN  /\ e.op = "cacheSet" =>
                   /\ Cardinality(Holding(geoCache', e.arg.key)) = 1
                   /\ \A n \in Holding(geoCache', e.arg.key) :
                        geoCache'[n].value = e.arg.value
                   /\ i > 1 /\ i < Len(NewEvents(p))
                   /\ NewEvents(p)[i + 1].op = "returned"
                   /\ NewEvents(p)[i + 1].arg.outcome = Return(e.arg.value)
                   /\ NewEvents(p)[i + 1].arg.function = "geocodeWithCache" =>
                        NewEvents(p)[i - 1] = Returned("geocodeHybrid", Return(e.arg.value))
              /\ e.op = "cacheHit" =>
                   /\ e.arg.held # Null
                   /\ i < Len(NewEvents(p))
                   /\ NewEvents(p)[i + 1].op = "returned"
                   /\ NewEvents(p)[i + 1].arg.outcome = Return(e.arg.held)]_vars

\* C26 witness: two requests for the same key were in flight together, both
\* missed and both asked provider A, they resolved to different results, and
\* now that both are answered the cache holds one entry for the key: the
\* result of the one that finished last
C26_Witness ==
  \E p, q \in Slots : \E key \in {geoCache[n].key : n \in DOMAIN geoCache} :
    \E vp, vq \in {x.value : x \in hist} \cup {trace[p][i].arg.value :
                     i \in {j \in DOMAIN trace[p] : trace[p][j].op = "cacheSet"}} :
      /\ p # q /\ pc[p] = "done" /\ pc[q] = "done"
      /\ now = 0 /\ served = 2
      /\ MissedAndStored(p, key, vp) /\ MissedAndStored(q, key, vq)
      /\ vp # vq
      /\ Cardinality(Holding(geoCache, key)) = 1
      /\ \A n \in Holding(geoCache, key) : geoCache[n].value = vq
      /\ \E x \in hist : x.key = key /\ x.value = vq


----------------------------------------------------------------------------
(* Results taken from a provider (claim C27).                              *)

\* the positions of the answer's results other than the chosen one
OtherThan(resp) == {i \in DOMAIN resp.items : i # FirstInBox(resp.items)}

\* the n-th of them in the provider's order
NthOther(resp, n) ==
  CHOOSE i \in OtherThan(resp) : Cardinality({j \in OtherThan(resp) : j < i}) = n - 1

\* the value is what geocodeHybrid builds from the provider's answer: the
\* first result inside the box, with the addresses of the first results
\* other than it as suggestions
BuiltFrom(value, resp, source) ==
  /\ HasCandidate(resp)
  /\ IsCandidateOf(value, resp, source)
  /\ \A i \in DOMAIN resp.items :
       InBox(resp.items[i].lat, resp.items[i].lon) => FirstInBox(resp.items) <= i
  /\ Len(value.sugerencias) <= 2
  /\ Len(value.sugerencias) <= Cardinality(OtherThan(resp))
  /\ Cardinality(OtherThan(resp)) >= 2 => Len(value.sugerencias) = 2
  /\ \A n \in DOMAIN value.sugerencias :
       value.sugerencias[n] = resp.items[NthOther(resp, n)].name

\* C27: every result of geocodeHybrid whose source is a provider lies inside
\* the bounding box and is built from that provider's answer: it is the
\* first result inside the box in the provider's order, and its suggestions
\* are at most 2 addresses, those of results other than the chosen one; and
\* a provider no result of which lies inside the box is never the source.
C27_FirstInBoxCandidate ==
  \A p \in Slots :
    CallsHybrid(p) =>
      \A o \in Outcomes(p, "geocodeHybrid") :
        \A source \in {"opencage", "mapbox"} :
          (o.ok /\ o.value.source = source) =>
            /\ InBox(o.value.lat, o.value.lon)
            /\ \E resp \in Responses(p, source) : BuiltFrom(o.value, resp, source)
            /\ \A resp \in Responses(p, source) : HasCandidate(resp)

\* C27 witness: provider B's answer held a result outside the box before
\* the first one inside and two more after it; the call returned the one
\* inside, with two suggestions, the result outside the box one of them
C27_Witness ==
  /\ CallsHybrid(1) /\ pc[1] = "done"
  /\ \E resp \in Responses(1, "mapbox") : \E o \in Outcomes(1, "geocodeHybrid") :
       /\ resp.ok /\ Len(resp.items) = 4 /\ FirstInBox(resp.items) = 2
       /\ o.ok /\ o.value.source = "mapbox"
       /\ o.value.direccion = resp.items[2].name
       /\ o.value.sugerencias = <<resp.items[1].name, resp.items[3].name>>


----------------------------------------------------------------------------
(* What the cached functions return (claim C28).                           *)

\* the value is a result of forward or of reverse geocoding
IsResolved(value) ==
  /\ value # Null
  /\ {"direccion", "source", "quality", "components"} \subseteq DOMAIN value
  /\ value.source \in {"predefined_poi", "opencage", "mapbox", "opencage_reverse"}
  /\ value.source # "opencage_reverse" => {"lat", "lon"} \subseteq DOMAIN value

\* slot p's request found the key in the cache
HitOn(p, key) ==
  \E i \in DOMAIN trace[p] : trace[p][i].op = "cacheHit" /\ trace[p][i].arg.key = key

\* C28: whenever geocodeWithCache or reverseGeocodeWithCache returns, what
\* it returns is a resolved location, never undefined: on a miss the result
\* of the resolution, on a hit the value the cache held, up to the last
\* instant of the entry's life and with the cache full.
C28_NeverUndefined ==
  \A p \in Slots : \A i \in DOMAIN trace[p] :
    LET e == trace[p][i]
    IN  (/\ e.op = "returned"
         /\ e.arg.function \in {"geocodeWithCache", "reverseGeocodeWithCache"}
         /\ e.arg.outcome.ok)
          => /\ IsResolved(e.arg.outcome.value)
             /\ (i > 1 /\ trace[p][i - 1].op = "cacheHit")
                  => e.arg.outcome.value = trace[p][i - 1].arg.held

\* C28 witness: three requests came one after the other.  The cache is
\* full: one entry was stored a whole TTL ago, the other, a gazetteer
\* result, just now by the second request; the third request found the old
\* entry at the last instant of its life and was answered with its value
C28_Witness ==
  \E x, y \in hist :
    /\ pc[1] = "done" /\ pc[2] = "idle"
    /\ served = 3 /\ trace[1][1] = Ev("request", 3)
    /\ Len(geoCache) = CacheMax
    /\ now = TTL /\ x.time = now - TTL /\ y.time = now
    /\ x.key # y.key /\ y.value.source = "predefined_poi"
    /\ HitOn(1, x.key)
    /\ Return(x.value) \in Outcomes(1, "geocodeWithCache")
    /\ Len(res[1]) = 1 /\ res[1][1].status = 200


----------------------------------------------------------------------------
(* One response per request (claim C29).                                   *)

\* C29: every request ends with exactly one response: no handler sends a
\* second one, and a handler that has ended, on whatever path, has sent one.
C29_ExactlyOneResponse ==
  \A p \in Slots :
    req[p] # Null =>
      /\ Len(res[p]) <= 1
      /\ Ended(p) => Len(res[p]) = 1

\* C29 witness: a fare request with valid destination coordinates and a
\* number as destination text; destino.trim() threw outside every try
\* block, the handler ended and no response was sent
C29_Witness ==
  /\ req[1] # Null /\ req[1].endpoint = "/calculate_fare"
  /\ ValidCoordinates(req[1].lat1, req[1].lon1) /\ ValidPhone(req[1].telefono)
  /\ ValidCoordinates(req[1].lat2, req[1].lon2)
  /\ req[1].destino.type = "number"
  /\ pc[1] = "rejected" /\ res[1] = <<>>


----------------------------------------------------------------------------
(* Redirect resolution in POST /geocode_link (claim C30): the loop that    *)
(* follows the redirects of the received URL by hand, one axios.get with   *)
(* maxRedirects: 0 and a timeout of 12 s per pass.                         *)

maxRedirects == 10

StartsWith(s, prefix) ==
  Len(s) >= Len(prefix) /\ SubSeq(s, 1, Len(prefix)) = prefix

\* the scheme and host of an absolute URL
UrlOrigin(url) ==
  LET slashes == {i \in 9..Len(url) : CharAt(url, i) = "/"}
  IN  IF slashes = {} THEN url
      ELSE SubSeq(url, 1, (CHOOSE i \in slashes : \A j \in slashes : i <= j) - 1)

\* new URL(location, base).href for a path on the same host; "" when the
\* URL constructor throws (an unparsable host)
Href(location, base) ==
  IF StartsWith(location, "//[") THEN ""
  ELSE IF StartsWith(location, "/") THEN UrlOrigin(base) \o location
  ELSE UrlOrigin(base) \o "/" \o location

\* what an axios.get ends with: resolved (validateStatus accepts every
\* status below 400) or rejected; status 0 is no response, location "" no
\* Location header
Resolved(status, location) == [ok |-> TRUE, status |-> status, location |-> location]
Rejected(status, location) == [ok |-> FALSE, status |-> status, location |-> location]

IsRedirect(answer) ==
  answer.status >= 300 /\ answer.status < 400 /\ answer.location # ""

\* the URL a redirect leads to
Target(answer, finalUrl) ==
  IF StartsWith(answer.location, "http") THEN answer.location
  ELSE Href(answer.location, finalUrl)

\* the answer is a redirect that leads to a URL
Leads(answer, finalUrl) == IsRedirect(answer) /\ Target(answer, finalUrl) # ""

\* a loop that goes on whatever the number of redirects followed
WhileUnbounded(s) ==
  [s EXCEPT !.phase = "awaiting", !.requests = @ + 1]

\* while (redirectAttempts < maxRedirects): the next pass sends its
\* request, or the loop is left
While(s) ==
  IF s.redirectAttempts < maxRedirects
  THEN [s EXCEPT !.phase = "awaiting", !.requests = @ + 1]
  ELSE [s EXCEPT !.phase = "parsing"]

\* one pass of the loop from the end of its request on
RedirectPass(s, answer) ==
  IF IsRedirect(answer)
  THEN LET target == Target(answer, s.finalUrl)
       IN  IF target # ""
           THEN While([s EXCEPT !.finalUrl = target, !.redirectAttempts = @ + 1])
           ELSE IF answer.ok
           THEN \* the throw is caught by the pass's own catch: break
                [s EXCEPT !.phase = "parsing"]
           ELSE \* thrown inside the catch block: the outer catch
                [s EXCEPT !.phase = "parsing", !.finalUrl = s.originalUrl]
  ELSE IF answer.ok
  THEN \* response.request.responseURL is not set by the http adapter;
       \* response.config.url is the URL that was asked
       [s EXCEPT !.phase = "parsing"]
  ELSE [s EXCEPT !.phase = "parsing"]

\* the handler from the valid URL to its first request
RedirectStart(originalUrl) ==
  While([phase |-> "start", originalUrl |-> originalUrl, finalUrl |-> originalUrl,
         redirectAttempts |-> 0, requests |-> 0])

\* the links received and where the web sends them: to each other, in
\* cycles too, to a path of the same host, nowhere
RedirectUrls ==
  {"https://maps.app.goo.gl/abc", "https://goo.gl/maps/xyz",
   "https://www.google.com/maps/place/Tepic"}

RedirectAnswers ==
  {Resolved(status, url) : status \in {301, 302}, url \in RedirectUrls}
    \cup {Resolved(302, "/maps?q=21.5,-104.89"), Resolved(302, "//["),
          Resolved(304, ""), Resolved(200, ""),
          Rejected(404, ""), Rejected(429, ""), Rejected(0, "")}

InitRedirect ==
  /\ geoCache = <<>>
  /\ now = 0
  /\ pc = [p \in Slots |-> "idle"]
  /\ req = [p \in Slots |-> Null]
  /\ loc = [p \in Slots |-> Null]
  /\ res = [p \in Slots |-> <<>>]
  /\ trace = [p \in Slots |-> <<>>]
  /\ served = 0
  /\ hist = {}
  /\ pure = [phase |-> "idle"]

\* POST /geocode_link arrives with a valid URL
LinkReceived(url) ==
  /\ pure.phase = "idle"
  /\ pure' = RedirectStart(url) @@ [got |-> Null, reached |-> url]
  /\ UNCHANGED <<geoCache, now, pc, req, loc, res, trace, served, hist>>

\* the request of the pass ends
RedirectAnswered(answer) ==
  /\ pure.phase = "awaiting"
  /\ pure' = RedirectPass([f \in {"phase", "originalUrl", "finalUrl",
                                  "redirectAttempts", "requests"} |-> pure[f]],
                          answer)
                @@ [got |-> answer,
                    reached |-> IF Leads(answer, pure.finalUrl)
                                THEN Target(answer, pure.finalUrl)
                                ELSE pure.reached]
  /\ UNCHANGED <<geoCache, now, pc, req, loc, res, trace, served, hist>>

NextRedirect ==
  \/ \E url \in RedirectUrls : LinkReceived(url)
  \/ \E answer \in RedirectAnswers : RedirectAnswered(answer)

\* every axios.get ends: with an answer, or with the timeout's error
SpecRedirect ==
  InitRedirect /\ [][NextRedirect]_vars
    /\ WF_vars(\E answer \in RedirectAnswers : RedirectAnswered(answer))

\* the resolution is under way or over
Resolving == pure.phase \in {"awaiting", "parsing"}

=============================================================================
